---- MODULE Spec2Model ----
(***************************************************************************)
(* Model of the profile-analysis pipeline of src/main.py:                  *)
(*   with_backoff / load_profile   the rate-limited fetch wrapper          *)
(*   analyze_profile               load -> paginate -> metrics ->          *)
(*                                 followers/followees -> inference ->     *)
(*                                 export -> return                        *)
(* The scraping library, the AI service and the file system are the        *)
(* environment: every call into them is a step whose outcome is chosen     *)
(* nondeterministically.  Time is not modelled; every time.sleep(d) is     *)
(* recorded with its duration d.  Durations are in whole time units        *)
(* (2.0 is 2).                                                             *)
(* Five parts are also modelled on their own, each in a specification of   *)
(* its own in which the pipeline and the other parts are at rest:          *)
(*   SpecInfer    infer_category_and_location and the keyword heuristic    *)
(*   SpecRunner   analyze_multiple_profiles                                *)
(*   SpecWeb      the /analyze handler of src/app.py                       *)
(*   SpecMetrics  the metrics block of analyze_profile, with its values    *)
(*   SpecDash     main() of src/ig_dashboard.py over one session           *)
(***************************************************************************)
EXTENDS Integers, Sequences, FiniteSets, TLC

VARIABLES
    pc,                   \* position in analyze_profile / the wrapper
    result,               \* what analyze_profile handed to its caller
    max_retries,          \* with_backoff configuration
    base_delay,
    attempt,              \* wrapper locals
    delay,
    last_error,
    calls,                \* invocations of the wrapped function
    sleeps,               \* pauses taken by the wrapper, in order
    MAX_POSTS,            \* module configuration (environment variables)
    SLEEP_DELAY,
    MAX_FOLLOWERS_FETCH,
    GEMINI_API_KEY,       \* TRUE iff the credential is a non-empty string
    export,               \* analyze_profile argument
    logged_in,            \* truthiness of L.context.username
    profile,              \* "None" or "Profile"
    i,                    \* items taken from profile.get_posts() so far
    posts_data,           \* collected post records, in collection order
    total_requests,
    failed_posts,
    signal,               \* how the latest pagination step ended
    slept,                \* pause taken by the latest pagination step
    followers_list,
    following_list,
    enum_attempted,       \* enumerations started
    enum_failed,          \* enumerations that raised
    ai_requests,          \* requests issued to the AI service
    inferred,             \* where stats category/location came from
    output_dir,           \* TRUE iff the per-username directory was made
    attempted,            \* export artifacts whose write was started
    written,              \* export artifacts written
    extra_paths,          \* the export-path keys attached to extra
    \* infer_category_and_location and the two stats fields it fills
    bio,                  \* stats["bio"], a string of characters
    captions,             \* the captions of the collected posts
    infer_pc,             \* "call", "returned" or "raised"
    reply,                \* what the AI service call came to
    sent,                 \* the captions put into the prompt
    category,             \* stats["category"]
    location,             \* stats["location"]
    \* analyze_multiple_profiles
    usernames,            \* the username list
    schedule_minutes,     \* the repeat interval
    run_pc,               \* where the runner is
    cursor,               \* position in the list of the profile in hand
    analyzed,             \* usernames analyze_profile was called on, this round
    outcomes,             \* what each of those calls came to
    summaries,            \* the stats collected this round, by username
    comparison,           \* comparison files written this round
    rounds,               \* run_once calls that returned
    round_sleeps,         \* the sleeps between rounds, in seconds
    pauses,               \* sleeps of SLEEP_DELAY this round
    printed_cols,         \* the columns of the comparison printed this round
    \* the /analyze endpoint of app.py
    web_pc,               \* where the handler is
    requests,             \* requests received
    body,                 \* the kind of body of the request in hand
    username,             \* request.json.get('username')
    scraped,              \* TRUE iff the scraper was invoked for the request
    analytics,            \* what scrape_profile returned
    snapshot,             \* the snapshot file of the request
    history,              \* the requests answered, with their responses
    \* the metrics block of analyze_profile, with values
    followers,            \* stats["followers"]
    df,                   \* the table of the collected posts
    m_pc,                 \* where the metrics block is
    engagement_rate,      \* stats["engagement_rate"], a fraction
    viral_percentage,     \* stats["viral_percentage"], a fraction
    posts_per_week,       \* stats["posts_per_week"], a fraction
    content_distribution, \* extra["content_distribution"]
    divisors,             \* the follower counts divided by
    df_columns,           \* the columns added to df
    er_timeline,          \* extra["er_timeline"]
    \* the dashboard of ig_dashboard.py, one session
    session_keys,         \* the keys st.session_state has
    analysis,             \* st.session_state.analysis: none or one held result
    last_username,        \* st.session_state.last_username
    dash_log,             \* the script runs that have ended
    dash_pc,              \* where the script run in progress stands
    dash_run              \* the run in progress: the widgets and the call

pipelineVars == << pc, result, max_retries, base_delay, attempt, delay, last_error,
           calls, sleeps, MAX_POSTS, SLEEP_DELAY, MAX_FOLLOWERS_FETCH,
           GEMINI_API_KEY, export, logged_in, profile, i, posts_data,
           total_requests, failed_posts, signal, slept, followers_list,
           following_list, enum_attempted, enum_failed, ai_requests,
           inferred, output_dir, attempted, written, extra_paths >>

wrapperVars == << max_retries, base_delay, attempt, delay, last_error,
                  calls, sleeps >>
configVars == << MAX_POSTS, SLEEP_DELAY, MAX_FOLLOWERS_FETCH, GEMINI_API_KEY,
                 export, logged_in >>
postVars == << i, posts_data, total_requests, failed_posts, signal, slept >>
followVars == << followers_list, following_list, enum_attempted, enum_failed >>
inferVars == << ai_requests, inferred >>
exportVars == << output_dir, attempted, written, extra_paths >>

\* The variables of the components that are modelled on their own.
inferIO == << bio, captions, infer_pc, reply, sent, category, location >>
runnerVars == << usernames, schedule_minutes, run_pc, cursor, analyzed, outcomes,
                 summaries, comparison, rounds, round_sleeps, pauses,
                 printed_cols >>
webVars == << web_pc, requests, body, username, scraped, analytics, snapshot,
              history >>
metricVars == << followers, df, m_pc, engagement_rate, viral_percentage,
                 posts_per_week, content_distribution, divisors, df_columns,
                 er_timeline >>
dashVars ==
    << session_keys, analysis, last_username, dash_log, dash_pc, dash_run >>
sideVars == << inferIO, runnerVars, webVars, metricVars, dashVars >>
inferOthers == << pipelineVars, runnerVars, webVars, metricVars, dashVars >>
runnerOthers == << pipelineVars, inferIO, webVars, metricVars, dashVars >>
webOthers == << pipelineVars, inferIO, runnerVars, metricVars, dashVars >>
metricOthers == << pipelineVars, inferIO, runnerVars, webVars, dashVars >>
dashOthers == << pipelineVars, inferIO, runnerVars, webVars, metricVars >>

vars == << pipelineVars, sideVars >>

(***************************************************************************)
(* Bounds of the model.                                                    *)
(***************************************************************************)
MaxStream == 4           \* posts the post stream may yield
MaxPostsCfg == 2         \* MAX_POSTS ranges over 0..MaxPostsCfg and 30
MaxFollowStream == 1     \* usernames a follower/followee stream may yield
MaxFollowersCfg == 1     \* MAX_FOLLOWERS_FETCH: 0..MaxFollowersCfg and 500
MaxRetriesCfg == 5       \* max_retries ranges over 1..MaxRetriesCfg
MaxBaseDelay == 3        \* base_delay ranges over 1..MaxBaseDelay

(***************************************************************************)
(* Program constants.                                                      *)
(***************************************************************************)
DefaultMaxRetries == 3
DefaultBaseDelay == 2
DefaultMaxPosts == 30
DefaultSleepDelay == 2
DefaultMaxFollowersFetch == 500
ConnectionCooldown == 30
LongBreakEvery == 20
LongBreakFactor == 3

(***************************************************************************)
(* with_backoff                                                            *)
(***************************************************************************)
\* An exception message is a sequence of words; the phrase the wrapper looks
\* for is one word of this vocabulary.
BlockPhrase == "Please wait a few minutes before you try again"

Messages ==
    { << "Profile", "does", "not", "exist" >>,
      << "Connection", "reset" >>,
      << BlockPhrase >>,
      << "401", "Unauthorized", BlockPhrase, "." >> }

\* `"Please wait a few minutes before you try again" in msg`
IsBlocked_never(msg) == FALSE

IsBlocked(msg) == \E k \in 1..Len(msg) : msg[k] = BlockPhrase

\* `attempt == max_retries - 1`
IsLastAttempt(a, m) == a = m - 1

\* `delay *= 2`
NextDelay_same(d) == d

NextDelay(d) == d * 2

\* One pass of the wrapper's loop body: the wrapped function returns.
AttemptReturns ==
    /\ pc = "load_profile"
    /\ attempt < max_retries
    /\ calls' = calls + 1
    /\ profile' = "Profile"
    /\ pc' = "loaded"
    /\ UNCHANGED << result, max_retries, base_delay, attempt, delay,
                    last_error, sleeps >>
    /\ UNCHANGED << configVars, postVars, followVars, inferVars, exportVars >>
    /\ UNCHANGED sideVars

\* One pass of the wrapper's loop body: the wrapped function raises msg.
AttemptRaises(msg) ==
    /\ pc = "load_profile"
    /\ attempt < max_retries
    /\ calls' = calls + 1
    /\ last_error' = msg
    /\ IF IsBlocked(msg)
         THEN \* break, then `raise last_error`
              /\ pc' = "load_failed"
              /\ UNCHANGED << attempt, delay, sleeps >>
         ELSE IF IsLastAttempt(attempt, max_retries)
                THEN \* `raise`
                     /\ pc' = "load_failed"
                     /\ UNCHANGED << attempt, delay, sleeps >>
                ELSE /\ sleeps' = Append(sleeps, delay)
                     /\ delay' = NextDelay(delay)
                     /\ attempt' = attempt + 1
                     /\ pc' = "load_profile"
    /\ UNCHANGED << result, max_retries, base_delay, profile >>
    /\ UNCHANGED << configVars, postVars, followVars, inferVars, exportVars >>
    /\ UNCHANGED sideVars

AttemptFails == \E msg \in Messages : AttemptRaises(msg)

(***************************************************************************)
(* analyze_profile: step 1, load the profile                               *)
(***************************************************************************)
\* `except Exception` around load_profile: return {}, pd.DataFrame(), {}
ReturnEmpty_fallthrough ==
    /\ pc = "load_failed"
    /\ pc' = "posts"
    /\ UNCHANGED << result, profile >>
    /\ UNCHANGED << wrapperVars, configVars, postVars, followVars, inferVars,
                    exportVars >>
    /\ UNCHANGED sideVars

ReturnEmpty ==
    /\ pc = "load_failed"
    /\ result' = "empty"
    /\ pc' = "done"
    /\ UNCHANGED << profile >>
    /\ UNCHANGED << wrapperVars, configVars, postVars, followVars, inferVars,
                    exportVars >>
    /\ UNCHANGED sideVars

\* The profile is loaded: the wrapper's frame is gone, the locals of the
\* pagination loop are initialised and profile.get_posts() is called.
StartPagination ==
    /\ pc = "loaded"
    /\ attempt' = 0
    /\ delay' = base_delay
    /\ calls' = 0
    /\ sleeps' = << >>
    /\ last_error' = << >>
    /\ pc' = "posts"
    /\ UNCHANGED << result, max_retries, base_delay, profile >>
    /\ UNCHANGED << configVars, postVars, followVars, inferVars, exportVars >>
    /\ UNCHANGED sideVars

(***************************************************************************)
(* analyze_profile: step 2, paginate the posts.                            *)
(* i counts the posts whose field extraction was started; it is the        *)
(* 0-based enumerate index of the next post.                               *)
(***************************************************************************)
\* `if i >= MAX_POSTS: break`
CapReached_off(idx) == idx > MAX_POSTS

CapReached(idx) == idx >= MAX_POSTS

\* The light rate limiting after the n-th post of the stream was recorded.
PostPause(n) ==
    IF SLEEP_DELAY > 0
      THEN IF n % LongBreakEvery = 0 THEN SLEEP_DELAY * LongBreakFactor
                                     ELSE SLEEP_DELAY
      ELSE 0

\* The record appended for the post at 0-based stream index idx.
PostRecord_zeroBased(idx) == [post_index |-> idx]

PostRecord(idx) == [post_index |-> idx + 1]

\* The for loop ends without a post being extracted.
\* how = "Exhausted": the stream has no further post;
\* how = "IteratorError": get_posts() or the iterator raises and the outer
\*                        `except Exception` takes over;
\* how = "Cap": the stream yields a post but the cap is reached.
PaginationEnds(how) ==
    /\ pc = "posts"
    /\ signal' = how
    /\ slept' = 0
    /\ pc' = "metrics"
    /\ UNCHANGED << i, posts_data, total_requests, failed_posts >>
    /\ UNCHANGED << result, profile >>
    /\ UNCHANGED << wrapperVars, configVars, followVars, inferVars, exportVars >>
    /\ UNCHANGED sideVars

PostsExhausted == PaginationEnds("Exhausted")

PostsIteratorError == PaginationEnds("IteratorError")

PostsCapBreak ==
    /\ i < MaxStream
    /\ CapReached(i)
    /\ PaginationEnds("Cap")

\* The stream yields a post and its fields are extracted: the record is
\* appended.  Failures of the video-view, caption-mention and tagged-user
\* reads are swallowed by their own handlers and end here as well.
PostRecorded ==
    /\ pc = "posts"
    /\ i < MaxStream
    /\ ~CapReached(i)
    /\ posts_data' = Append(posts_data, PostRecord(i))
    /\ total_requests' = total_requests + 1
    /\ slept' = PostPause(i + 1)
    /\ signal' = "Recorded"
    /\ i' = i + 1
    /\ pc' = "posts"
    /\ UNCHANGED << failed_posts >>
    /\ UNCHANGED << result, profile >>
    /\ UNCHANGED << wrapperVars, configVars, followVars, inferVars, exportVars >>
    /\ UNCHANGED sideVars

\* The extraction of the post raises out of the per-post try block:
\* the handler counts the post as failed, sleeps `pause`, appends the
\* records `recs` (none in the code) and either breaks or continues.
PostRaises_counted(sig, pause, stop, recs) ==
    /\ pc = "posts"
    /\ i < MaxStream
    /\ ~CapReached(i)
    /\ failed_posts' = failed_posts + 1
    /\ total_requests' = total_requests + 1
    /\ posts_data' = posts_data \o recs
    /\ signal' = sig
    /\ slept' = pause
    /\ i' = i + 1
    /\ pc' = IF stop THEN "metrics" ELSE "posts"
    /\ UNCHANGED << result, profile >>
    /\ UNCHANGED << wrapperVars, configVars, followVars, inferVars, exportVars >>
    /\ UNCHANGED sideVars

PostRaises(sig, pause, stop, recs) ==
    /\ pc = "posts"
    /\ i < MaxStream
    /\ ~CapReached(i)
    /\ failed_posts' = failed_posts + 1
    /\ posts_data' = posts_data \o recs
    /\ signal' = sig
    /\ slept' = pause
    /\ i' = i + 1
    /\ pc' = IF stop THEN "metrics" ELSE "posts"
    /\ UNCHANGED << total_requests >>
    /\ UNCHANGED << result, profile >>
    /\ UNCHANGED << wrapperVars, configVars, followVars, inferVars, exportVars >>
    /\ UNCHANGED sideVars

\* `except TooManyRequestsException`: failed_posts += 1; break
PostTooManyRequests_continue ==
    PostRaises("TooManyRequests", 0, FALSE, << >>)

PostTooManyRequests == PostRaises("TooManyRequests", 0, TRUE, << >>)

\* `except ConnectionException`: failed_posts += 1; time.sleep(30); continue
PostConnectionError_break ==
    PostRaises("Connection", ConnectionCooldown, TRUE, << >>)

PostConnectionError == PostRaises("Connection", ConnectionCooldown, FALSE, << >>)

\* `except Exception`: failed_posts += 1; continue
PostOtherError_recorded == PostRaises("Other", 0, FALSE, << PostRecord(i) >>)

PostOtherError == PostRaises("Other", 0, FALSE, << >>)

(***************************************************************************)
(* analyze_profile: step 3, the metrics (df, stats, extra)                 *)
(***************************************************************************)
\* The pagination loop is over: no signal is being handled any more.
ComputeMetrics ==
    /\ pc = "metrics"
    /\ signal' = "None"
    /\ slept' = 0
    /\ pc' = "followers"
    /\ UNCHANGED << i, posts_data, total_requests, failed_posts >>
    /\ UNCHANGED << result, profile >>
    /\ UNCHANGED << wrapperVars, configVars, followVars, inferVars, exportVars >>
    /\ UNCHANGED sideVars

(***************************************************************************)
(* analyze_profile: followers and followees (only when logged in)          *)
(***************************************************************************)
\* `if idx + 1 >= MAX_FOLLOWERS_FETCH: break`, n being idx + 1
FetchCapReached(n) == n >= MAX_FOLLOWERS_FETCH

\* `if L.context.username:` is false
SkipEnumeration ==
    /\ pc = "followers"
    /\ ~logged_in
    /\ pc' = "infer"
    /\ UNCHANGED << result, profile >>
    /\ UNCHANGED << wrapperVars, configVars, postVars, followVars, inferVars,
                    exportVars >>
    /\ UNCHANGED sideVars

\* profile.get_followers() yields the next username: append, then the cap
FollowersYield ==
    /\ pc = "followers"
    /\ logged_in
    /\ Len(followers_list) < MaxFollowStream
    /\ followers_list' = Append(followers_list, Len(followers_list) + 1)
    /\ enum_attempted' = enum_attempted \cup {"followers"}
    /\ pc' = IF FetchCapReached(Len(followers_list) + 1) THEN "following"
                                                         ELSE "followers"
    /\ UNCHANGED << following_list, enum_failed >>
    /\ UNCHANGED << result, profile >>
    /\ UNCHANGED << wrapperVars, configVars, postVars, inferVars, exportVars >>
    /\ UNCHANGED sideVars

FollowersExhausted ==
    /\ pc = "followers"
    /\ logged_in
    /\ enum_attempted' = enum_attempted \cup {"followers"}
    /\ pc' = "following"
    /\ UNCHANGED << followers_list, following_list, enum_failed >>
    /\ UNCHANGED << result, profile >>
    /\ UNCHANGED << wrapperVars, configVars, postVars, inferVars, exportVars >>
    /\ UNCHANGED sideVars

\* get_followers() or its iterator raises: `except Exception` prints a
\* warning; followers_list keeps what was appended.
FollowersError ==
    /\ pc = "followers"
    /\ logged_in
    /\ enum_attempted' = enum_attempted \cup {"followers"}
    /\ enum_failed' = enum_failed \cup {"followers"}
    /\ pc' = "following"
    /\ UNCHANGED << followers_list, following_list >>
    /\ UNCHANGED << result, profile >>
    /\ UNCHANGED << wrapperVars, configVars, postVars, inferVars, exportVars >>
    /\ UNCHANGED sideVars

FollowingYield ==
    /\ pc = "following"
    /\ Len(following_list) < MaxFollowStream
    /\ following_list' = Append(following_list, Len(following_list) + 1)
    /\ enum_attempted' = enum_attempted \cup {"following"}
    /\ pc' = IF FetchCapReached(Len(following_list) + 1) THEN "infer"
                                                         ELSE "following"
    /\ UNCHANGED << followers_list, enum_failed >>
    /\ UNCHANGED << result, profile >>
    /\ UNCHANGED << wrapperVars, configVars, postVars, inferVars, exportVars >>
    /\ UNCHANGED sideVars

FollowingExhausted ==
    /\ pc = "following"
    /\ enum_attempted' = enum_attempted \cup {"following"}
    /\ pc' = "infer"
    /\ UNCHANGED << followers_list, following_list, enum_failed >>
    /\ UNCHANGED << result, profile >>
    /\ UNCHANGED << wrapperVars, configVars, postVars, inferVars, exportVars >>
    /\ UNCHANGED sideVars

FollowingError ==
    /\ pc = "following"
    /\ enum_attempted' = enum_attempted \cup {"following"}
    /\ enum_failed' = enum_failed \cup {"following"}
    /\ pc' = "infer"
    /\ UNCHANGED << followers_list, following_list >>
    /\ UNCHANGED << result, profile >>
    /\ UNCHANGED << wrapperVars, configVars, postVars, inferVars, exportVars >>
    /\ UNCHANGED sideVars

(***************************************************************************)
(* analyze_profile: step 4, category and location                          *)
(***************************************************************************)
\* What the AI service call can come to:
\*   "object"      response.text is a JSON object
\*   "not_object"  response.text is valid JSON but not an object
\*   "empty"       no text in the response
\*   "malformed"   json.loads raises
\*   "quota"       ResourceExhausted
\*   "error"       any other exception of the call
\*   "no_client"   genai.Client(...) or types.GenerateContentConfig(...)
\*                 raises inside the try: no call is made
Responses ==
    {"object", "not_object", "empty", "malformed", "quota", "error",
     "no_client"}

\* The kinds in which generate_content was called.
Requested == Responses \ {"no_client"}

\* infer_category_and_location without a credential
InferWithoutKey ==
    /\ pc = "infer"
    /\ ~GEMINI_API_KEY
    /\ inferred' = "heuristic"
    /\ pc' = "makedirs"
    /\ UNCHANGED << ai_requests >>
    /\ UNCHANGED << result, profile >>
    /\ UNCHANGED << wrapperVars, configVars, postVars, followVars, exportVars >>
    /\ UNCHANGED sideVars

\* infer_category_and_location with a credential: the client and the request
\* are built inside the try, then generate_content is called once.  A failure
\* to build them goes to the heuristic with no call made.  A JSON value that
\* is not an object is returned as it is, and ai_res.get(...) in
\* analyze_profile raises AttributeError outside any try.
InferWithKey_retry(resp) ==
    /\ pc = "infer"
    /\ GEMINI_API_KEY
    /\ ai_requests' = IF resp = "no_client" THEN ai_requests
                      ELSE IF resp \in {"object", "not_object"}
                             THEN ai_requests + 1
                             ELSE ai_requests + 2
    /\ CASE resp = "object" ->
              /\ inferred' = "ai"
              /\ pc' = "makedirs"
              /\ UNCHANGED result
         [] resp = "not_object" ->
              /\ inferred' = "none"
              /\ pc' = "done"
              /\ result' = "raised"
         [] OTHER ->
              /\ inferred' = "heuristic"
              /\ pc' = "makedirs"
              /\ UNCHANGED result
    /\ UNCHANGED << profile >>
    /\ UNCHANGED << wrapperVars, configVars, postVars, followVars, exportVars >>
    /\ UNCHANGED sideVars

InferWithKey(resp) ==
    /\ pc = "infer"
    /\ GEMINI_API_KEY
    /\ ai_requests' = IF resp \in Requested THEN ai_requests + 1
                                             ELSE ai_requests
    /\ CASE resp = "object" ->
              /\ inferred' = "ai"
              /\ pc' = "makedirs"
              /\ UNCHANGED result
         [] resp = "not_object" ->
              /\ inferred' = "none"
              /\ pc' = "done"
              /\ result' = "raised"
         [] OTHER ->
              /\ inferred' = "heuristic"
              /\ pc' = "makedirs"
              /\ UNCHANGED result
    /\ UNCHANGED << profile >>
    /\ UNCHANGED << wrapperVars, configVars, postVars, followVars, exportVars >>
    /\ UNCHANGED sideVars

InferRequest == \E resp \in Responses : InferWithKey(resp)

(***************************************************************************)
(* analyze_profile: step 5, the exports                                    *)
(***************************************************************************)
Artifacts ==
    { "posts_csv", "posts_log", "followers_log", "following_log",
      "interactions_log", "profile_csv", "profile_json", "profile_xlsx" }

\* os.makedirs(output_dir, exist_ok=True), the paths, `if export:`.
\* ok: the file system makes the directory or has it already.  The call
\* stands outside any try: a failure (a file of that name, a parent that
\* cannot be written) leaves analyze_profile as an exception, whatever the
\* export flag is.
MakeOutputDir ==
    /\ pc = "makedirs"
    /\ \E ok \in BOOLEAN :
         IF ok
           THEN /\ output_dir' = TRUE
                /\ pc' = IF export THEN "posts_csv" ELSE "report"
                /\ UNCHANGED result
           ELSE /\ UNCHANGED output_dir
                /\ pc' = "done"
                /\ result' = "raised"
    /\ UNCHANGED << attempted, written, extra_paths, profile >>
    /\ UNCHANGED << wrapperVars, configVars, postVars, followVars, inferVars >>
    /\ UNCHANGED sideVars

\* One artifact write at position `here`.  ok: the file system accepts the
\* write.  guarded: the write stands in a try/except of its own, so that a
\* failure is printed and the next write follows; an unguarded failure
\* leaves analyze_profile as an exception.
WriteArtifact(a, here, next, guarded, ok) ==
    /\ pc = here
    /\ attempted' = attempted \cup {a}
    /\ IF ok
         THEN /\ written' = written \cup {a}
              /\ pc' = next
              /\ UNCHANGED result
         ELSE /\ UNCHANGED written
              /\ IF guarded
                   THEN /\ pc' = next
                        /\ UNCHANGED result
                   ELSE /\ pc' = "done"
                        /\ result' = "raised"
    /\ UNCHANGED << output_dir, extra_paths, profile >>
    /\ UNCHANGED << wrapperVars, configVars, postVars, followVars, inferVars >>
    /\ UNCHANGED sideVars

\* df.to_csv(posts_csv, index=False)
WritePostsCsv ==
    \E ok \in BOOLEAN :
        WriteArtifact("posts_csv", "posts_csv", "posts_log", FALSE, ok)

\* try: open(posts_log, "w") ... except Exception
WritePostsLog ==
    \E ok \in BOOLEAN :
        WriteArtifact("posts_log", "posts_log", "followers_log", TRUE, ok)

\* try: open(followers_log, "w") ... except Exception
WriteFollowersLog ==
    \E ok \in BOOLEAN :
        WriteArtifact("followers_log", "followers_log", "following_log", TRUE, ok)

\* try: open(following_log, "w") ... except Exception
WriteFollowingLog ==
    \E ok \in BOOLEAN :
        WriteArtifact("following_log", "following_log", "interactions_log",
                      TRUE, ok)

\* try: open(interactions_log, "w") ... except Exception
WriteInteractionsLog ==
    \E ok \in BOOLEAN :
        WriteArtifact("interactions_log", "interactions_log", "profile_csv",
                      TRUE, ok)

\* profile_df.to_csv(profile_csv, index=False)
WriteProfileCsv ==
    \E ok \in BOOLEAN :
        WriteArtifact("profile_csv", "profile_csv", "profile_json", FALSE, ok)

\* profile_df.to_json(profile_json, orient="records", indent=2)
WriteProfileJson ==
    \E ok \in BOOLEAN :
        WriteArtifact("profile_json", "profile_json", "profile_xlsx", FALSE, ok)

\* try: profile_df.to_excel(profile_xlsx, index=False) except Exception
WriteProfileXlsx ==
    \E ok \in BOOLEAN :
        WriteArtifact("profile_xlsx", "profile_xlsx", "report", TRUE, ok)

(***************************************************************************)
(* analyze_profile: step 6, the report, the paths and the return           *)
(***************************************************************************)
\* The keys under which the export paths are attached to extra.
ExportPathKeys ==
    {"output_dir", "posts_csv", "posts_log", "followers_log", "following_log",
     "interactions_log", "profile_csv", "profile_json", "profile_xlsx"}

ReturnResult ==
    /\ pc = "report"
    /\ extra_paths' = ExportPathKeys
    /\ result' = "triple"
    /\ pc' = "done"
    /\ UNCHANGED << output_dir, attempted, written, profile >>
    /\ UNCHANGED << wrapperVars, configVars, postVars, followVars, inferVars >>
    /\ UNCHANGED sideVars

(***************************************************************************)
(* Specifications                                                          *)
(***************************************************************************)
\* The state in which analyze_profile calls load_profile, for one choice of
\* the wrapper's configuration.
InitWith(retries, bdelay) ==
    /\ pc = "load_profile"
    /\ result = "none"
    /\ max_retries = retries
    /\ base_delay = bdelay
    /\ attempt = 0
    /\ delay = bdelay
    /\ last_error = << >>
    /\ calls = 0
    /\ sleeps = << >>
    /\ MAX_POSTS \in (0..MaxPostsCfg) \cup {DefaultMaxPosts}
    /\ SLEEP_DELAY \in {0, DefaultSleepDelay}
    /\ MAX_FOLLOWERS_FETCH \in (0..MaxFollowersCfg) \cup {DefaultMaxFollowersFetch}
    /\ GEMINI_API_KEY \in BOOLEAN
    /\ export \in BOOLEAN
    /\ logged_in \in BOOLEAN
    /\ profile = "None"
    /\ i = 0
    /\ posts_data = << >>
    /\ total_requests = 0
    /\ failed_posts = 0
    /\ signal = "None"
    /\ slept = 0
    /\ followers_list = << >>
    /\ following_list = << >>
    /\ enum_attempted = {}
    /\ enum_failed = {}
    /\ ai_requests = 0
    /\ inferred = "none"
    /\ output_dir = FALSE
    /\ attempted = {}
    /\ written = {}
    /\ extra_paths = {}

\* load_profile is with_backoff(max_retries=3, base_delay=2.0)
\* infer_category_and_location has not been called on its own.
InferIdle ==
    /\ bio = << >>
    /\ captions = << >>
    /\ infer_pc = "idle"
    /\ reply = "none"
    /\ sent = << >>
    /\ category = "none"
    /\ location = "none"

RunnerIdle ==
    /\ usernames = << >>
    /\ schedule_minutes = 0
    /\ run_pc = "idle"
    /\ cursor = 0
    /\ analyzed = << >>
    /\ outcomes = << >>
    /\ summaries = << >>
    /\ comparison = {}
    /\ rounds = 0
    /\ round_sleeps = << >>
    /\ pauses = 0
    /\ printed_cols = << >>

WebIdle ==
    /\ web_pc = "idle"
    /\ requests = 0
    /\ body = "none"
    /\ username = "none"
    /\ scraped = FALSE
    /\ analytics = "none"
    /\ snapshot = "none"
    /\ history = << >>

\* 0.0, as a float: the value m * 2^e, m a natural number in limbs
Zero == [m |-> << >>, e |-> 0]

MetricsIdle ==
    /\ followers = 0
    /\ df = << >>
    /\ m_pc = "idle"
    /\ engagement_rate = Zero
    /\ viral_percentage = Zero
    /\ posts_per_week = Zero
    /\ content_distribution = << >>
    /\ divisors = << >>
    /\ df_columns = {}
    /\ er_timeline = << >>

\* The session before the first run of the script.
DashIdle ==
    /\ session_keys = {}
    /\ analysis = << >>
    /\ last_username = << >>
    /\ dash_log = << >>
    /\ dash_pc = "idle"
    /\ dash_run = [input |-> << >>, clicked |-> FALSE, called |-> FALSE,
                   out |-> "none"]

SideIdle == InferIdle /\ RunnerIdle /\ WebIdle /\ MetricsIdle /\ DashIdle

\* The pipeline at rest, for the specifications of the other functions.
PipelineIdle ==
    /\ InitWith(DefaultMaxRetries, DefaultBaseDelay)
    /\ MAX_POSTS = DefaultMaxPosts
    /\ SLEEP_DELAY = DefaultSleepDelay
    /\ MAX_FOLLOWERS_FETCH = DefaultMaxFollowersFetch
    /\ export
    /\ ~logged_in

Init == InitWith(DefaultMaxRetries, DefaultBaseDelay) /\ SideIdle

BackoffNext ==
    \/ AttemptReturns
    \/ AttemptFails

Next ==
    \/ AttemptReturns
    \/ AttemptFails
    \/ ReturnEmpty
    \/ StartPagination
    \/ PostsExhausted
    \/ PostsIteratorError
    \/ PostsCapBreak
    \/ PostRecorded
    \/ PostTooManyRequests
    \/ PostConnectionError
    \/ PostOtherError
    \/ ComputeMetrics
    \/ SkipEnumeration
    \/ FollowersYield
    \/ FollowersExhausted
    \/ FollowersError
    \/ FollowingYield
    \/ FollowingExhausted
    \/ FollowingError
    \/ InferWithoutKey
    \/ InferRequest
    \/ MakeOutputDir
    \/ WritePostsCsv
    \/ WritePostsLog
    \/ WriteFollowersLog
    \/ WriteFollowingLog
    \/ WriteInteractionsLog
    \/ WriteProfileCsv
    \/ WriteProfileJson
    \/ WriteProfileXlsx
    \/ ReturnResult

Spec == Init /\ [][Next]_vars

\* The wrapper on its own, for every configuration within the bounds.
InitBackoff ==
    /\ \E retries \in 1..MaxRetriesCfg, bdelay \in 1..MaxBaseDelay :
          InitWith(retries, bdelay)
    /\ SideIdle

SpecBackoff == InitBackoff /\ [][BackoffNext]_vars

(***************************************************************************)
(* Properties                                                              *)
(***************************************************************************)
\* Nothing after the profile load has run.
NothingRan ==
    /\ i = 0
    /\ posts_data = << >>
    /\ total_requests = 0
    /\ failed_posts = 0
    /\ enum_attempted = {}
    /\ followers_list = << >>
    /\ following_list = << >>
    /\ ai_requests = 0
    /\ inferred = "none"
    /\ ~output_dir
    /\ attempted = {}
    /\ written = {}

\* C1: when the wrapper gives up loading the profile, analyze_profile's next
\* and last step returns the empty triple; it does not raise, and no post
\* was paginated, no enumeration started, no inference made, no directory
\* or file written.
C1_LoadFailureReturnsEmpty ==
    /\ [](profile = "None" /\ pc \in {"load_failed", "done"} =>
            /\ NothingRan
            /\ pc = "done" => result = "empty")
    /\ [][pc = "load_failed" => pc' = "done" /\ result' = "empty"]_vars

C1_Witness ==
    /\ pc = "done"
    /\ profile = "None"
    /\ result = "empty"
    /\ calls = DefaultMaxRetries

\* C2: analyze_profile never leaves by an exception, whatever the
\* collaborators do.
C2_NoExceptionEscapes == result # "raised"

\* C3: a too-many-requests signal on a post ends pagination in that step:
\* the records collected so far are kept, failed_posts grows by exactly 1,
\* the pipeline goes on to the metrics, and from then on no post is
\* extracted or recorded.
C3_TooManyRequestsStops ==
    /\ [][pc = "posts" /\ signal' = "TooManyRequests" =>
            /\ pc' = "metrics"
            /\ posts_data' = posts_data
            /\ total_requests' = total_requests
            /\ failed_posts' = failed_posts + 1]_vars
    /\ [][pc \notin {"load_profile", "loaded", "posts"} =>
            /\ i' = i
            /\ posts_data' = posts_data
            /\ failed_posts' = failed_posts
            /\ pc' # "posts"]_vars
    /\ [](signal = "TooManyRequests" => pc = "metrics" /\ result = "none")

\* the signal on the last post of the longest stream, every post before it
\* collected
C3_Witness ==
    /\ signal = "TooManyRequests"
    /\ i = MaxStream
    /\ Len(posts_data) = MaxStream - 1
    /\ failed_posts = 1
    /\ pc = "metrics"

\* C4: a connection signal on a post costs a cooldown of 30 time units,
\* whatever SLEEP_DELAY is, and leaves pagination running at the next post.
C4_ConnectionCooldownContinues ==
    /\ [][pc = "posts" /\ signal' = "Connection" =>
            /\ slept' = ConnectionCooldown
            /\ pc' = "posts"
            /\ i' = i + 1
            /\ posts_data' = posts_data]_vars
    /\ [](signal = "Connection" => pc = "posts" /\ slept = 30)

\* a record is collected right after a connection signal
C4_Witness ==
    /\ signal = "Recorded"
    /\ failed_posts = 1
    /\ Len(posts_data) = 2
    /\ posts_data[2].post_index = 3
    /\ SLEEP_DELAY = 0

\* C5: any other per-post error leaves no record, adds 1 to failed_posts,
\* takes no pause and leaves pagination running at the next post; the
\* records collected before stay as a prefix of every later collection.
C5_OtherErrorSkipsPost ==
    /\ [][pc = "posts" /\ signal' = "Other" =>
            /\ posts_data' = posts_data
            /\ total_requests' = total_requests
            /\ failed_posts' = failed_posts + 1
            /\ slept' = 0
            /\ i' = i + 1
            /\ pc' = "posts"]_vars
    /\ [][/\ Len(posts_data') >= Len(posts_data)
          /\ SubSeq(posts_data', 1, Len(posts_data)) = posts_data]_vars

\* a post is skipped between two collected ones
C5_Witness ==
    /\ signal = "Other"
    /\ pc = "posts"
    /\ posts_data = << [post_index |-> 1], [post_index |-> 2] >>
    /\ i = 3
    /\ failed_posts = 1

\* C6: the number of collected records never exceeds MAX_POSTS.
C6_PostsWithinCap == Len(posts_data) <= MAX_POSTS

\* the cap is what ended the pagination
C6_Witness ==
    /\ signal = "Cap"
    /\ MAX_POSTS > 0
    /\ Len(posts_data) = MAX_POSTS

RECURSIVE Pow2(_)
Pow2(n) == IF n = 0 THEN 1 ELSE 2 * Pow2(n - 1)

\* The message names the temporary block.
SaysTemporaryBlock(msg) ==
    msg \in { m \in Messages : \E k \in DOMAIN m : m[k] = BlockPhrase }

\* C7: the wrapper pauses base_delay * 2^(k-1) between attempt k and
\* attempt k+1 and never after an attempt that ends it; when every attempt
\* fails without the block signal it has invoked the function max_retries
\* times and raises the last failure; a successful attempt ends it at once.
C7_BackoffSchedule ==
    /\ Len(sleeps) = attempt
    /\ \A k \in 1..Len(sleeps) : sleeps[k] = base_delay * Pow2(k - 1)
    /\ calls = IF pc = "load_profile" THEN attempt ELSE attempt + 1
    /\ pc = "load_failed" /\ ~SaysTemporaryBlock(last_error) =>
          /\ calls = max_retries
          /\ Len(sleeps) = max_retries - 1
          /\ last_error \in Messages
    /\ pc = "loaded" => profile = "Profile"

\* three failed attempts of load_profile: pauses 2 and 4, none after the last
C7_Witness ==
    /\ pc = "load_failed"
    /\ ~SaysTemporaryBlock(last_error)
    /\ max_retries = 3
    /\ base_delay = 2
    /\ calls = 3
    /\ sleeps = << 2, 4 >>

\* C8: an attempt that fails with the temporary-block message is the last
\* one: no pause, no further attempt, the failure is raised.
C8_BlockAbortsRetries ==
    /\ [][pc = "load_profile" /\ calls' = calls + 1
            /\ SaysTemporaryBlock(last_error') =>
            /\ pc' = "load_failed"
            /\ sleeps' = sleeps
            /\ attempt' = attempt]_vars
    /\ [](SaysTemporaryBlock(last_error) =>
            pc = "load_failed" /\ calls = Len(sleeps) + 1)

\* blocked on the first attempt with attempts left
C8_Witness ==
    /\ pc = "load_failed"
    /\ SaysTemporaryBlock(last_error)
    /\ calls = 1
    /\ max_retries >= 3
    /\ sleeps = << >>

\* C9 as stated: an enumeration that fails at any point, after some
\* usernames were received too, leaves its list empty; the other list is
\* enumerated all the same, and the analysis still completes with non-empty
\* stats.
C9_FailedListEmpty ==
    /\ "followers" \in enum_failed => followers_list = << >>
    /\ "following" \in enum_failed => following_list = << >>
    /\ enum_failed # {} /\ pc \notin {"followers", "following"} =>
          enum_attempted = {"followers", "following"}
    /\ enum_failed # {} /\ pc = "done" => result = "triple"

\* C10: each list holds at most MAX_FOLLOWERS_FETCH usernames.
C10_ListsWithinCap ==
    /\ Len(followers_list) <= MAX_FOLLOWERS_FETCH
    /\ Len(following_list) <= MAX_FOLLOWERS_FETCH

\* The inferrer has not been called yet.
BeforeInference ==
    \/ pc \in {"load_profile", "loaded", "load_failed", "posts", "metrics",
               "followers", "following", "infer"}
    \/ result = "empty"

\* The inferrer came back with the reply of the service, or analyze_profile
\* broke on that reply.
ReplyUsed ==
    \/ inferred = "ai"
    \/ ~BeforeInference /\ inferred = "none" /\ result = "raised"

\* C11 as claimed: one analysis issues no request to the AI service without
\* a credential and exactly one with it.
C11_ExactlyOneRequest ==
    ai_requests = IF GEMINI_API_KEY /\ ~BeforeInference THEN 1 ELSE 0

\* C11: one analysis issues no request to the AI service without a
\* credential and at most one with it: exactly one whenever the reply of the
\* service is used, one or none (the client or the request could not be
\* built) when the heuristic answers; a reply that sends the inferrer to the
\* heuristic is not followed by a second request.
C11_OneRequestAtMost ==
    /\ [](ai_requests <= 1)
    /\ [](~GEMINI_API_KEY \/ BeforeInference => ai_requests = 0)
    /\ [](ReplyUsed => ai_requests = 1)
    /\ [][inferred' = "heuristic" /\ inferred = "none" =>
            ai_requests' \in (IF GEMINI_API_KEY THEN {0, 1} ELSE {0})]_vars
    /\ [][~BeforeInference => ai_requests' = ai_requests]_vars

\* the service was asked once, the heuristic answered, the analysis ended
C11_Witness ==
    /\ GEMINI_API_KEY
    /\ inferred = "heuristic"
    /\ ai_requests = 1
    /\ pc = "done"
    /\ result = "triple"

\* C14: once the exports have started, a failing write never ends the
\* analysis: every artifact is attempted and the triple is returned.
C14_ExportFailuresCaught ==
    pc = "done" /\ attempted # {} =>
        /\ result = "triple"
        /\ attempted = Artifacts

(***************************************************************************)
(* heuristic_category_location and infer_category_and_location on their    *)
(* own.  A string is the sequence of its characters, so that `k in text`   *)
(* is the substring test it is in the code.                                *)
(***************************************************************************)
\* A character is a string: the character itself, or the name U+hhhh of
\* its code point.  The characters str.lower() changes, among ASCII, Latin-1,
\* Greek (without the capital sigma, whose lower case depends on its place in
\* the word) and the four below them, each with what it becomes.
UpperCase ==
  <<
    "A", "B", "C", "D", "E", "F", "G", "H", "I", "J", "K", "L", "M", "N",
    "O", "P", "Q", "R", "S", "T", "U", "V", "W", "X", "Y", "Z", "À", "Á",
    "Â", "Ã", "Ä", "Å", "Æ", "Ç", "È", "É", "Ê", "Ë", "Ì", "Í", "Î", "Ï",
    "Ð", "Ñ", "Ò", "Ó", "Ô", "Õ", "Ö", "Ø", "Ù", "Ú", "Û", "Ü", "Ý", "Þ",
    "Α", "Β", "Γ", "Δ", "Ε", "Ζ", "Η", "Θ", "Ι", "Κ", "Λ", "Μ", "Ν", "Ξ",
    "Ο", "Π", "Ρ", "Τ", "Υ", "Φ", "Χ", "Ψ", "Ω", "Ϊ", "Ϋ", "U+0130", "ẞ",
    "U+2126", "U+212A", "U+212B" >>

LowerCase ==
  <<
    << "a" >>, << "b" >>, << "c" >>, << "d" >>, << "e" >>, << "f" >>,
    << "g" >>, << "h" >>, << "i" >>, << "j" >>, << "k" >>, << "l" >>,
    << "m" >>, << "n" >>, << "o" >>, << "p" >>, << "q" >>, << "r" >>,
    << "s" >>, << "t" >>, << "u" >>, << "v" >>, << "w" >>, << "x" >>,
    << "y" >>, << "z" >>, << "à" >>, << "á" >>, << "â" >>, << "ã" >>,
    << "ä" >>, << "å" >>, << "æ" >>, << "ç" >>, << "è" >>, << "é" >>,
    << "ê" >>, << "ë" >>, << "ì" >>, << "í" >>, << "î" >>, << "ï" >>,
    << "ð" >>, << "ñ" >>, << "ò" >>, << "ó" >>, << "ô" >>, << "õ" >>,
    << "ö" >>, << "ø" >>, << "ù" >>, << "ú" >>, << "û" >>, << "ü" >>,
    << "ý" >>, << "þ" >>, << "α" >>, << "β" >>, << "γ" >>, << "δ" >>,
    << "ε" >>, << "ζ" >>, << "η" >>, << "θ" >>, << "ι" >>, << "κ" >>,
    << "λ" >>, << "μ" >>, << "ν" >>, << "ξ" >>, << "ο" >>, << "π" >>,
    << "ρ" >>, << "τ" >>, << "υ" >>, << "φ" >>, << "χ" >>, << "ψ" >>,
    << "ω" >>, << "ϊ" >>, << "ϋ" >>, << "i", "U+0307" >>, << "ß" >>,
    << "ω" >>, << "k" >>, << "å" >> >>

\* The characters of the same ranges that str.lower() leaves as they are.
LowerFixed ==
  {
    " ", "!", "\"", "#", "$", "%", "&", "'", "(", ")", "*", "+", ",", "-",
    ".", "/", "0", "1", "2", "3", "4", "5", "6", "7", "8", "9", ":", ";",
    "<", "=", ">", "?", "@", "[", "\\", "]", "^", "_", "U+0060", "a", "b",
    "c", "d", "e", "f", "g", "h", "i", "j", "k", "l", "m", "n", "o", "p",
    "q", "r", "s", "t", "u", "v", "w", "x", "y", "z", "{", "|", "}", "~",
    "\t", "\n", "U+000B", "\f", "\r", "U+001C", "U+001D", "U+001E",
    "U+001F", "U+0085", "U+00A0", "¡", "¢", "£", "¤", "¥", "¦", "§", "¨",
    "©", "ª", "«", "¬", "U+00AD", "®", "¯", "°", "±", "²", "³", "´", "µ",
    "¶", "·", "¸", "¹", "º", "»", "¼", "½", "¾", "¿", "×", "ß", "à", "á",
    "â", "ã", "ä", "å", "æ", "ç", "è", "é", "ê", "ë", "ì", "í", "î", "ï",
    "ð", "ñ", "ò", "ó", "ô", "õ", "ö", "÷", "ø", "ù", "ú", "û", "ü", "ý",
    "þ", "ÿ", "ά", "έ", "ή", "ί", "ΰ", "α", "β", "γ", "δ", "ε", "ζ", "η",
    "θ", "ι", "κ", "λ", "μ", "ν", "ξ", "ο", "π", "ρ", "ς", "σ", "τ", "υ",
    "φ", "χ", "ψ", "ω", "U+0131", "U+0307", "U+1680", "U+2000", "U+2001",
    "U+2002", "U+2003", "U+2004", "U+2005", "U+2006", "U+2007", "U+2008",
    "U+2009", "U+200A", "U+2028", "U+2029", "U+202F", "U+205F", "U+3000",
    "U+200B", "U+FEFF", "ϊ", "ϋ" }

\* str.lower() of one character: one character, or two for U+0130.  No
\* value is given to a character outside the two tables.
LowerChar(c) ==
    CASE (\E k \in 1..Len(UpperCase) : UpperCase[k] = c) ->
             LowerCase[CHOOSE k \in 1..Len(UpperCase) : UpperCase[k] = c]
      [] c \in LowerFixed -> << c >>

\* str.lower()
RECURSIVE Lower(_)
Lower(str) ==
    IF Len(str) = 0 THEN << >>
    ELSE LowerChar(Head(str)) \o Lower(Tail(str))

\* `key in text`
Contains(text, key) ==
    \E o \in 0..(Len(text) - Len(key)) :
        \A k \in 1..Len(key) : text[o + k] = key[k]

\* " ".join(strs)
RECURSIVE JoinSpace(_)
JoinSpace(strs) ==
    IF Len(strs) = 0 THEN << >>
    ELSE IF Len(strs) = 1 THEN strs[1]
    ELSE strs[1] \o << " " >> \o JoinSpace(Tail(strs))

\* text_lower = ((bio or "") + " " + " ".join(captions or [])).lower()
TextLower(b, caps) == Lower(b \o << " " >> \o JoinSpace(caps))

UnknownHeuristic == "Unknown (heuristic)"

\* The if/elif chain of keyword lists, in its order.
CategoryTable_swapped ==
   << 
      [name |-> "Fitness",
       keys |-> { << "f", "i", "t", "n", "e", "s", "s" >>,
                   << "g", "y", "m" >>,
                   << "w", "o", "r", "k", "o", "u", "t" >>,
                   << "c", "o", "a", "c", "h" >>,
                   << "t", "r", "a", "i", "n", "e", "r" >> }],
      [name |-> "Poetry / Writing",
       keys |-> { << "p", "o", "e", "t", "r", "y" >>,
                   << "p", "o", "e", "t" >>,
                   << "s", "h", "a", "y", "a", "r", "i" >>,
                   << "u", "r", "d", "u" >> }],
      [name |-> "Travel",
       keys |-> { << "t", "r", "a", "v", "e", "l" >>,
                   << "w", "a", "n", "d", "e", "r", "l", "u", "s", "t" >>,
                   << "t", "r", "i", "p" >>,
                   << "t", "o", "u", "r", "i", "s", "m" >> }],
      [name |-> "Food",
       keys |-> { << "f", "o", "o", "d" >>,
                   << "c", "h", "e", "f" >>,
                   << "r", "e", "c", "i", "p", "e" >>,
                   << "b", "a", "k", "i", "n", "g" >>,
                   << "r", "e", "s", "t", "a", "u", "r", "a", "n", "t" >> }],
      [name |-> "Fashion / Beauty",
       keys |-> { << "f", "a", "s", "h", "i", "o", "n" >>,
                   << "s", "t", "y", "l", "e" >>,
                   << "o", "u", "t", "f", "i", "t" >>,
                   << "o", "o", "t", "d" >>,
                   << "m", "a", "k", "e", "u", "p" >>,
                   << "b", "e", "a", "u", "t", "y" >> }],
      [name |-> "Tech / Developer",
       keys |-> { << "d", "e", "v", "e", "l", "o", "p", "e", "r" >>,
                   << "c", "o", "d", "i", "n", "g" >>,
                   << "p", "r", "o", "g", "r", "a", "m", "m", "e", "r" >>,
                   << "s", "o", "f", "t", "w", "a", "r", "e" >>,
                   << "t", "e", "c", "h" >> }],
      [name |-> "Photography",
       keys |-> { << "p", "h", "o", "t", "o", "g", "r", "a", "p", "h", "y" >>,
                   << "p", "h", "o", "t", "o", "g", "r", "a", "p", "h", "e", "r" >>,
                   << "c", "a", "m", "e", "r", "a" >>,
                   << "p", "o", "r", "t", "r", "a", "i", "t" >> }],
      [name |-> "Music / Artist",
       keys |-> { << "m", "u", "s", "i", "c" >>,
                   << "s", "i", "n", "g", "e", "r" >>,
                   << "s", "o", "n", "g", "w", "r", "i", "t", "e", "r" >>,
                   << "p", "r", "o", "d", "u", "c", "e", "r" >>,
                   << "d", "j" >> }] >>

CategoryTable ==
   << 
      [name |-> "Poetry / Writing",
       keys |-> { << "p", "o", "e", "t", "r", "y" >>,
                   << "p", "o", "e", "t" >>,
                   << "s", "h", "a", "y", "a", "r", "i" >>,
                   << "u", "r", "d", "u" >> }],
      [name |-> "Fitness",
       keys |-> { << "f", "i", "t", "n", "e", "s", "s" >>,
                   << "g", "y", "m" >>,
                   << "w", "o", "r", "k", "o", "u", "t" >>,
                   << "c", "o", "a", "c", "h" >>,
                   << "t", "r", "a", "i", "n", "e", "r" >> }],
      [name |-> "Travel",
       keys |-> { << "t", "r", "a", "v", "e", "l" >>,
                   << "w", "a", "n", "d", "e", "r", "l", "u", "s", "t" >>,
                   << "t", "r", "i", "p" >>,
                   << "t", "o", "u", "r", "i", "s", "m" >> }],
      [name |-> "Food",
       keys |-> { << "f", "o", "o", "d" >>,
                   << "c", "h", "e", "f" >>,
                   << "r", "e", "c", "i", "p", "e" >>,
                   << "b", "a", "k", "i", "n", "g" >>,
                   << "r", "e", "s", "t", "a", "u", "r", "a", "n", "t" >> }],
      [name |-> "Fashion / Beauty",
       keys |-> { << "f", "a", "s", "h", "i", "o", "n" >>,
                   << "s", "t", "y", "l", "e" >>,
                   << "o", "u", "t", "f", "i", "t" >>,
                   << "o", "o", "t", "d" >>,
                   << "m", "a", "k", "e", "u", "p" >>,
                   << "b", "e", "a", "u", "t", "y" >> }],
      [name |-> "Tech / Developer",
       keys |-> { << "d", "e", "v", "e", "l", "o", "p", "e", "r" >>,
                   << "c", "o", "d", "i", "n", "g" >>,
                   << "p", "r", "o", "g", "r", "a", "m", "m", "e", "r" >>,
                   << "s", "o", "f", "t", "w", "a", "r", "e" >>,
                   << "t", "e", "c", "h" >> }],
      [name |-> "Photography",
       keys |-> { << "p", "h", "o", "t", "o", "g", "r", "a", "p", "h", "y" >>,
                   << "p", "h", "o", "t", "o", "g", "r", "a", "p", "h", "e", "r" >>,
                   << "c", "a", "m", "e", "r", "a" >>,
                   << "p", "o", "r", "t", "r", "a", "i", "t" >> }],
      [name |-> "Music / Artist",
       keys |-> { << "m", "u", "s", "i", "c" >>,
                   << "s", "i", "n", "g", "e", "r" >>,
                   << "s", "o", "n", "g", "w", "r", "i", "t", "e", "r" >>,
                   << "p", "r", "o", "d", "u", "c", "e", "r" >>,
                   << "d", "j" >> }] >>

\* any(k in text_lower for k in [...])
BucketMatches(text, bucket) == \E key \in bucket.keys : Contains(text, key)

RECURSIVE CategoryFrom(_, _)
CategoryFrom(text, k) ==
    IF k > Len(CategoryTable) THEN UnknownHeuristic
    ELSE IF BucketMatches(text, CategoryTable[k]) THEN CategoryTable[k].name
    ELSE CategoryFrom(text, k + 1)

\* known_locations, in insertion order
known_locations_newDelhiFirst ==
   << 
      [key |-> << "m", "u", "m", "b", "a", "i" >>,
       loc |-> "Mumbai, India"],
      [key |-> << "b", "o", "m", "b", "a", "y" >>,
       loc |-> "Mumbai, India"],
      [key |-> << "p", "u", "n", "e" >>,
       loc |-> "Pune, India"],
      [key |-> << "b", "a", "n", "g", "a", "l", "o", "r", "e" >>,
       loc |-> "Bengaluru, India"],
      [key |-> << "b", "e", "n", "g", "a", "l", "u", "r", "u" >>,
       loc |-> "Bengaluru, India"],
      [key |-> << "n", "e", "w", " ", "d", "e", "l", "h", "i" >>,
       loc |-> "New Delhi, India"],
      [key |-> << "d", "e", "l", "h", "i" >>,
       loc |-> "Delhi, India"],
      [key |-> << "h", "y", "d", "e", "r", "a", "b", "a", "d" >>,
       loc |-> "Hyderabad, India"],
      [key |-> << "c", "h", "e", "n", "n", "a", "i" >>,
       loc |-> "Chennai, India"],
      [key |-> << "k", "o", "l", "k", "a", "t", "a" >>,
       loc |-> "Kolkata, India"],
      [key |-> << "k", "a", "r", "a", "c", "h", "i" >>,
       loc |-> "Karachi, Pakistan"],
      [key |-> << "l", "a", "h", "o", "r", "e" >>,
       loc |-> "Lahore, Pakistan"],
      [key |-> << "i", "s", "l", "a", "m", "a", "b", "a", "d" >>,
       loc |-> "Islamabad, Pakistan"],
      [key |-> << "d", "u", "b", "a", "i" >>,
       loc |-> "Dubai, UAE"],
      [key |-> << "l", "o", "n", "d", "o", "n" >>,
       loc |-> "London, UK"],
      [key |-> << "n", "e", "w", " ", "y", "o", "r", "k" >>,
       loc |-> "New York, USA"],
      [key |-> << "l", "o", "s", " ", "a", "n", "g", "e", "l", "e", "s" >>,
       loc |-> "Los Angeles, USA"],
      [key |-> << "t", "o", "r", "o", "n", "t", "o" >>,
       loc |-> "Toronto, Canada"],
      [key |-> << "v", "a", "n", "c", "o", "u", "v", "e", "r" >>,
       loc |-> "Vancouver, Canada"],
      [key |-> << "s", "y", "d", "n", "e", "y" >>,
       loc |-> "Sydney, Australia"],
      [key |-> << "m", "e", "l", "b", "o", "u", "r", "n", "e" >>,
       loc |-> "Melbourne, Australia"],
      [key |-> << "p", "a", "r", "i", "s" >>,
       loc |-> "Paris, France"] >>

known_locations ==
   << 
      [key |-> << "m", "u", "m", "b", "a", "i" >>,
       loc |-> "Mumbai, India"],
      [key |-> << "b", "o", "m", "b", "a", "y" >>,
       loc |-> "Mumbai, India"],
      [key |-> << "p", "u", "n", "e" >>,
       loc |-> "Pune, India"],
      [key |-> << "b", "a", "n", "g", "a", "l", "o", "r", "e" >>,
       loc |-> "Bengaluru, India"],
      [key |-> << "b", "e", "n", "g", "a", "l", "u", "r", "u" >>,
       loc |-> "Bengaluru, India"],
      [key |-> << "d", "e", "l", "h", "i" >>,
       loc |-> "Delhi, India"],
      [key |-> << "n", "e", "w", " ", "d", "e", "l", "h", "i" >>,
       loc |-> "New Delhi, India"],
      [key |-> << "h", "y", "d", "e", "r", "a", "b", "a", "d" >>,
       loc |-> "Hyderabad, India"],
      [key |-> << "c", "h", "e", "n", "n", "a", "i" >>,
       loc |-> "Chennai, India"],
      [key |-> << "k", "o", "l", "k", "a", "t", "a" >>,
       loc |-> "Kolkata, India"],
      [key |-> << "k", "a", "r", "a", "c", "h", "i" >>,
       loc |-> "Karachi, Pakistan"],
      [key |-> << "l", "a", "h", "o", "r", "e" >>,
       loc |-> "Lahore, Pakistan"],
      [key |-> << "i", "s", "l", "a", "m", "a", "b", "a", "d" >>,
       loc |-> "Islamabad, Pakistan"],
      [key |-> << "d", "u", "b", "a", "i" >>,
       loc |-> "Dubai, UAE"],
      [key |-> << "l", "o", "n", "d", "o", "n" >>,
       loc |-> "London, UK"],
      [key |-> << "n", "e", "w", " ", "y", "o", "r", "k" >>,
       loc |-> "New York, USA"],
      [key |-> << "l", "o", "s", " ", "a", "n", "g", "e", "l", "e", "s" >>,
       loc |-> "Los Angeles, USA"],
      [key |-> << "t", "o", "r", "o", "n", "t", "o" >>,
       loc |-> "Toronto, Canada"],
      [key |-> << "v", "a", "n", "c", "o", "u", "v", "e", "r" >>,
       loc |-> "Vancouver, Canada"],
      [key |-> << "s", "y", "d", "n", "e", "y" >>,
       loc |-> "Sydney, Australia"],
      [key |-> << "m", "e", "l", "b", "o", "u", "r", "n", "e" >>,
       loc |-> "Melbourne, Australia"],
      [key |-> << "p", "a", "r", "i", "s" >>,
       loc |-> "Paris, France"] >>

\* for key, loc in known_locations.items(): if key in text_lower: ... break
RECURSIVE LocationFrom(_, _)
LocationFrom(text, k) ==
    IF k > Len(known_locations) THEN UnknownHeuristic
    ELSE IF Contains(text, known_locations[k].key) THEN known_locations[k].loc
    ELSE LocationFrom(text, k + 1)

heuristic_category_location(b, caps) ==
    [category |-> CategoryFrom(TextLower(b, caps), 1),
     location |-> LocationFrom(TextLower(b, caps), 1)]

\* captions[:5]
SentCaptionsMax == 5

FirstCaptions(caps) ==
    SubSeq(caps, 1, IF Len(caps) < SentCaptionsMax THEN Len(caps)
                                                   ELSE SentCaptionsMax)

\* A key the reply object does not have.
Absent == "(absent)"

\* What the generate_content call can come to.  An "object" reply is the
\* parsed JSON object, with or without the two keys.
Replies ==
    { [kind |-> "object", category |-> "Meme", location |-> "Unknown"],
      [kind |-> "object", category |-> "Travel", location |-> Absent],
      [kind |-> "object", category |-> Absent, location |-> Absent] }
    \cup { [kind |-> k, category |-> Absent, location |-> Absent] :
             k \in Responses \ {"object"} }

\* ai_res.get(field, "Unknown")
GetOrUnknown(v) == IF v = Absent THEN "Unknown" ELSE v

\* `if not api_key: return heuristic_category_location(bio, captions)`,
\* then stats["category"], stats["location"]
InferNoCredential ==
    /\ infer_pc = "call"
    /\ ~GEMINI_API_KEY
    /\ category' = heuristic_category_location(bio, captions).category
    /\ location' = heuristic_category_location(bio, captions).location
    /\ infer_pc' = "returned"
    /\ UNCHANGED << bio, captions, reply, sent >>
    /\ UNCHANGED inferOthers

\* With a credential: the prompt takes the first five captions, the call is
\* made once, and the reply decides; every fallback goes to the heuristic
\* with the whole caption list.  A reply that parses to something other
\* than an object is returned as it is, and ai_res.get then raises.
InferCall(r) ==
    /\ infer_pc = "call"
    /\ GEMINI_API_KEY
    /\ sent' = FirstCaptions(captions)
    /\ reply' = r
    /\ CASE r.kind = "object" ->
              /\ category' = GetOrUnknown(r.category)
              /\ location' = GetOrUnknown(r.location)
              /\ infer_pc' = "returned"
         [] r.kind = "not_object" ->
              /\ infer_pc' = "raised"
              /\ UNCHANGED << category, location >>
         [] OTHER ->
              /\ category' = heuristic_category_location(bio, captions).category
              /\ location' = heuristic_category_location(bio, captions).location
              /\ infer_pc' = "returned"
    /\ UNCHANGED << bio, captions >>
    /\ UNCHANGED inferOthers

InferReplies == \E r \in Replies : InferCall(r)

\* The bios and caption lists the inferrer is checked on.
Bios ==
    { << >>,
      << "M", "u", "m", "b", "a", "i", " ", "b", "a", "s", "e", "d", " ", "f", "i", "t", "n", "e", "s", "s", " ", "c", "o", "a", "c", "h" >>,
      << "P", "o", "e", "t", " ", "f", "r", "o", "m", " ", "N", "e", "w", " ", "D", "e", "l", "h", "i" >>,
      << "T", "r", "a", "v", "e", "l", " ", "a", "n", "d", " ", "f", "o", "o", "d", " ", "i", "n", " ", "P", "a", "r", "i", "s" >>,
      << "G", "y", "m", " ", "t", "r", "a", "i", "n", "e", "r", ",", " ", "p", "o", "e", "t", ".", " ", "P", "u", "n", "e", " ", "/", " ", "M", "u", "m", "b", "a", "i" >>,
      << "T", "e", "c", "h", " ", "D", "J", " ", "L", "o", "n", "d", "o", "n" >>,
      << "A", "d", "j", "u", "s", "t", "i", "n", "g", " ", "l", "e", "n", "s", "e", "s" >>,
      << "H", "e", "l", "l", "o", " ", "w", "o", "r", "l", "d" >>,
      << "C", "A", "F", "É", " ", "P", "A", "R", "I", "S" >>,
      << "D", "E", "L", "H", "U+0130" >>,
      << "U+212A", "A", "R", "A", "C", "H", "I" >> }

CaptionLists ==
    { << >>,
      << << "N", "e", "w", " ", "r", "e", "c", "i", "p", "e" >> >>,
      << << "O", "O", "T", "D", " ", "#", "s", "t", "y", "l", "e" >>,
         << "s", "y", "d", "n", "e", "y" >> >>,
      << << "a" >>,
         << "b" >>,
         << "c" >>,
         << "d" >>,
         << "e" >>,
         << "D", "u", "b", "a", "i", " ", "t", "r", "i", "p" >> >> }

InitInfer ==
    /\ PipelineIdle
    /\ RunnerIdle
    /\ WebIdle
    /\ MetricsIdle
    /\ DashIdle
    /\ bio \in Bios
    /\ captions \in CaptionLists
    /\ infer_pc = "call"
    /\ reply = [kind |-> "none", category |-> Absent, location |-> Absent]
    /\ sent = << >>
    /\ category = "none"
    /\ location = "none"

InferNext ==
    \/ InferNoCredential
    \/ InferReplies

SpecInfer == InitInfer /\ [][InferNext]_vars

\* The inferrer has come back through a path the fallback is promised on.
FallbackReplyKinds ==
    {"empty", "malformed", "not_object", "quota", "error", "no_client"}

FallbackCase ==
    /\ infer_pc # "call"
    /\ \/ ~GEMINI_API_KEY
       \/ reply.kind \in FallbackReplyKinds

\* C12: whenever the credential is absent, the reply is empty or malformed,
\* or the request fails, the category and location attached to the stats are
\* the heuristic's result on the bio and all collected captions.
C12_FallbackIsHeuristic ==
    FallbackCase =>
        /\ category = heuristic_category_location(bio, captions).category
        /\ location = heuristic_category_location(bio, captions).location

\* The heuristic was the source of the category and location.
HeuristicUsed ==
    /\ infer_pc = "returned"
    /\ \/ ~GEMINI_API_KEY
       \/ reply.kind \in {"empty", "malformed", "quota", "error", "no_client"}

\* The order of the buckets as the specification gives it.
ClaimedOrder ==
    << "Poetry / Writing", "Fitness", "Travel", "Food", "Fashion / Beauty",
       "Tech / Developer", "Photography", "Music / Artist" >>

KeysOf(name) ==
    UNION { CategoryTable[k].keys :
              k \in { j \in 1..Len(CategoryTable) : CategoryTable[j].name = name } }

ClaimedMatches(text) ==
    { k \in 1..Len(ClaimedOrder) :
        \E key \in KeysOf(ClaimedOrder[k]) : Contains(text, key) }

ClaimedCategory(text) ==
    IF ClaimedMatches(text) = {} THEN "Unknown (heuristic)"
    ELSE ClaimedOrder[CHOOSE k \in ClaimedMatches(text) :
                          \A j \in ClaimedMatches(text) : k <= j]

CityMatches(text) ==
    { k \in 1..Len(known_locations) : Contains(text, known_locations[k].key) }

ClaimedLocation(text) ==
    IF CityMatches(text) = {} THEN "Unknown (heuristic)"
    ELSE known_locations[CHOOSE k \in CityMatches(text) :
                             \A j \in CityMatches(text) : k <= j].loc

MumbaiCoach == << "M", "u", "m", "b", "a", "i", " ", "b", "a", "s", "e", "d", " ", "f", "i", "t", "n", "e", "s", "s", " ", "c", "o", "a", "c", "h" >>

\* C13: the heuristic's category is the bucket of the first keyword set, in
\* the order Poetry, Fitness, Travel, Food, Fashion, Tech, Photography, Music,
\* with a keyword in the lowercased bio and captions; its location is the
\* value of the first city key in table order in that text; each is
\* "Unknown (heuristic)" when nothing matches; and the bio "Mumbai based
\* fitness coach" with no captions gives Fitness and Mumbai, India.
C13_FirstMatchWins ==
    HeuristicUsed =>
        /\ category = ClaimedCategory(TextLower(bio, captions))
        /\ location = ClaimedLocation(TextLower(bio, captions))
        /\ bio = MumbaiCoach /\ captions = << >> =>
              category = "Fitness" /\ location = "Mumbai, India"

\* A bio with keywords of two buckets, the later bucket's keyword first in
\* the text, and two cities, the later key first in the text.
C13_Witness ==
    /\ HeuristicUsed
    /\ Cardinality(ClaimedMatches(TextLower(bio, captions))) > 1
    /\ Cardinality(CityMatches(TextLower(bio, captions))) > 1
    /\ category = "Poetry / Writing"
    /\ location = "Mumbai, India"

(***************************************************************************)
(* analyze_multiple_profiles: run_once over the username list, once or     *)
(* in the `while True` loop.  A summary is named by its username.          *)
(***************************************************************************)
MaxUsers == 3

MaxSchedule == 2

MaxRounds == 2

Names == {"u1", "u2"}

UsernameLists == UNION { [1..n -> Names] : n \in 0..MaxUsers }

SecondsPerMinute == 60

\* What a call of analyze_profile(uname, export=True, print_report=True) comes
\* to: the stats, the empty triple, or an exception.
AnalysisOutcomes == {"stats", "empty", "raised"}

\* `if schedule_minutes > 0: while True: ... run_once()` / `else: run_once()`,
\* up to `summaries = []`
BeginRound ==
    /\ run_pc = "start"
    /\ rounds < MaxRounds
    /\ summaries' = << >>
    /\ analyzed' = << >>
    /\ outcomes' = << >>
    /\ comparison' = {}
    /\ pauses' = 0
    /\ printed_cols' = << >>
    /\ cursor' = 1
    /\ run_pc' = IF usernames = << >> THEN "compare" ELSE "profile"
    /\ UNCHANGED << usernames, schedule_minutes, rounds, round_sleeps >>
    /\ UNCHANGED runnerOthers

\* stats, df, extra = analyze_profile(...); if stats: summaries.append(stats)
AnalyzeProfile(out) ==
    /\ run_pc = "profile"
    /\ analyzed' = Append(analyzed, usernames[cursor])
    /\ outcomes' = Append(outcomes, out)
    /\ summaries' = IF out = "stats" THEN Append(summaries, usernames[cursor])
                                     ELSE summaries
    /\ run_pc' = IF out = "raised" THEN "raised" ELSE "pause"
    /\ UNCHANGED << usernames, schedule_minutes, cursor, comparison, rounds,
                    round_sleeps, pauses,
                    printed_cols >>
    /\ UNCHANGED runnerOthers

AnalyzeNext == \E out \in AnalysisOutcomes : AnalyzeProfile(out)

\* time.sleep(SLEEP_DELAY), then the next username or the end of the loop
ProfilePause ==
    /\ run_pc = "pause"
    /\ pauses' = pauses + 1
    /\ cursor' = cursor + 1
    /\ run_pc' = IF cursor = Len(usernames) THEN "compare" ELSE "profile"
    /\ UNCHANGED << usernames, schedule_minutes, analyzed, outcomes, summaries,
                    comparison, rounds, round_sleeps,
                    printed_cols >>
    /\ UNCHANGED runnerOthers

\* `if summaries:` is false
CompareSkip ==
    /\ run_pc = "compare"
    /\ summaries = << >>
    /\ run_pc' = "round_end"
    /\ UNCHANGED << usernames, schedule_minutes, cursor, analyzed, outcomes,
                    summaries, comparison, rounds, round_sleeps, pauses,
                    printed_cols >>
    /\ UNCHANGED runnerOthers

\* The fields of a stats object, in the order they are set: the columns of
\* summary_df.
StatsFields ==
    << "username", "full_name", "bio", "followers", "following",
       "total_posts", "is_verified", "avg_likes", "avg_comments", "avg_views",
       "engagement_rate", "viral_percentage", "posts_per_week",
       "brand_collabs", "category", "location" >>

\* cols, before the filter
KeyMetricCols ==
    << "username", "full_name", "followers", "following", "total_posts",
       "avg_likes", "avg_comments", "avg_views", "engagement_rate",
       "viral_percentage", "posts_per_week", "category", "location" >>

InStatsFields(c) == \E k \in 1..Len(StatsFields) : StatsFields[k] = c

\* cols = [c for c in cols if c in summary_df.columns]
cols == SelectSeq(KeyMetricCols, InStatsFields)

\* One comparison write: summary_df itself is written, with every column.  An unguarded write that fails leaves the runner as
\* an exception; the guarded one is reported and passed over.
WriteComparison(file, here, next, guarded, ok) ==
    /\ run_pc = here
    /\ comparison' =
          IF ok THEN comparison \cup {[file |-> file, columns |-> StatsFields]}
                ELSE comparison
    /\ run_pc' = IF ok \/ guarded THEN next ELSE "raised"
    /\ UNCHANGED << usernames, schedule_minutes, cursor, analyzed, outcomes,
                    summaries, rounds, round_sleeps, pauses >>
    /\ UNCHANGED runnerOthers

\* print(summary_df[cols].to_string(index=False)), then
\* summary_df.to_csv("profiles_comparison.csv", index=False)
WriteComparisonCsv ==
    /\ summaries # << >>
    /\ printed_cols' = cols
    /\ \E ok \in BOOLEAN :
          WriteComparison("csv", "compare", "compare_json", FALSE, ok)

\* summary_df.to_json("profiles_comparison.json", ...)
WriteComparisonJson ==
    /\ UNCHANGED printed_cols
    /\ \E ok \in BOOLEAN :
          WriteComparison("json", "compare_json", "compare_xlsx", FALSE, ok)

\* try: summary_df.to_excel(...) except Exception: print(...)
WriteComparisonXlsx ==
    /\ UNCHANGED printed_cols
    /\ \E ok \in BOOLEAN :
          WriteComparison("xlsx", "compare_xlsx", "round_end", TRUE, ok)

\* run_once returns: into the sleep of the loop, or out of the runner
RoundEnd ==
    /\ run_pc = "round_end"
    /\ rounds' = rounds + 1
    /\ run_pc' = IF schedule_minutes > 0 THEN "round_sleep" ELSE "returned"
    /\ UNCHANGED << usernames, schedule_minutes, cursor, analyzed, outcomes,
                    summaries, comparison, round_sleeps, pauses,
                    printed_cols >>
    /\ UNCHANGED runnerOthers

\* time.sleep(schedule_minutes * 60), and round the loop
RoundSleep ==
    /\ run_pc = "round_sleep"
    /\ round_sleeps' = Append(round_sleeps, schedule_minutes * SecondsPerMinute)
    /\ run_pc' = "start"
    /\ UNCHANGED << usernames, schedule_minutes, cursor, analyzed, outcomes,
                    summaries, comparison, rounds, pauses,
                    printed_cols >>
    /\ UNCHANGED runnerOthers

InitRunner ==
    /\ PipelineIdle
    /\ ~GEMINI_API_KEY
    /\ InferIdle
    /\ WebIdle
    /\ MetricsIdle
    /\ DashIdle
    /\ usernames \in UsernameLists
    /\ schedule_minutes \in -1..MaxSchedule
    /\ run_pc = "start"
    /\ cursor = 0
    /\ analyzed = << >>
    /\ outcomes = << >>
    /\ summaries = << >>
    /\ comparison = {}
    /\ rounds = 0
    /\ round_sleeps = << >>
    /\ pauses = 0
    /\ printed_cols = << >>

RunnerNext ==
    \/ BeginRound
    \/ AnalyzeNext
    \/ ProfilePause
    \/ CompareSkip
    \/ WriteComparisonCsv
    \/ WriteComparisonJson
    \/ WriteComparisonXlsx
    \/ RoundEnd
    \/ RoundSleep

SpecRunner == InitRunner /\ [][RunnerNext]_vars

\* The runner has stopped, by returning or by an exception.
RunnerEnded == run_pc \in {"returned", "raised"}

\* C15: with an interval of zero or less the runner performs exactly one
\* round and returns; with a positive interval it goes round for ever,
\* sleeping the interval after each round, and never stops on its own.
C15_RoundsByInterval ==
    /\ RunnerEnded =>
          /\ schedule_minutes <= 0
          /\ run_pc = "returned"
          /\ rounds = 1
    /\ schedule_minutes <= 0 => round_sleeps = << >> /\ rounds <= 1
    /\ schedule_minutes > 0 =>
          /\ Len(round_sleeps) =
                IF run_pc = "start" \/ rounds = 0 THEN rounds ELSE rounds - 1
          /\ \A k \in 1..Len(round_sleeps) :
                round_sleeps[k] = schedule_minutes * SecondsPerMinute

\* The usernames of the calls that came to non-empty stats, in call order.
RECURSIVE WithStats(_, _)
WithStats(names, outs) ==
    IF Len(names) = 0 THEN << >>
    ELSE IF outs[1] = "stats"
      THEN << names[1] >> \o WithStats(Tail(names), Tail(outs))
      ELSE WithStats(Tail(names), Tail(outs))

\* The loop over the usernames is still going.
InLoop == run_pc \in {"profile", "pause"}

\* C16: in one round each listed username is analyzed once, in list order;
\* the summaries are the stats of the calls that returned non-empty stats, in
\* that order; and a failed profile neither stops the round nor is in the
\* comparison.
C16_RoundCoversList ==
    /\ Len(analyzed) <= Len(usernames)
    /\ analyzed = SubSeq(usernames, 1, Len(analyzed))
    /\ Len(outcomes) = Len(analyzed)
    /\ summaries = WithStats(analyzed, outcomes)
    /\ run_pc \notin {"start", "idle"} /\ ~InLoop => analyzed = usernames
    /\ Len(outcomes) > 0 /\ outcomes[Len(outcomes)] # "stats"
         /\ Len(outcomes) < Len(usernames) => InLoop

(***************************************************************************)
(* app.py: the handler of POST /analyze, request after request.            *)
(***************************************************************************)
MaxRequests == 2

\* The bodies a request can carry: no JSON at all, JSON that is not an
\* object, an object without the key, with an empty username, with one.
Bodies == {"no_json", "not_object", "no_username", "empty_username",
           "with_username"}

BadRequest == 400

NotFound == 404

Ok == 200

ServerError == 500

\* The handler returns a response: the request is answered.
Respond(code, scr, an, snap) ==
    /\ history' = Append(history, [body |-> body, code |-> code,
                                   scraped |-> scr,
                                   analytics |-> an,
                                   snapshot |-> snap])
    /\ web_pc' = "idle"

\* A request arrives.
ReceiveRequest ==
    /\ web_pc = "idle"
    /\ requests < MaxRequests
    /\ requests' = requests + 1
    /\ body' \in Bodies
    /\ username' = "none"
    /\ scraped' = FALSE
    /\ analytics' = "none"
    /\ snapshot' = "none"
    /\ web_pc' = "read"
    /\ UNCHANGED history
    /\ UNCHANGED webOthers

\* username = request.json.get('username'); request.json raises on a body
\* that is no JSON, and .get raises on what is not an object.
ReadUsername ==
    /\ web_pc = "read"
    /\ IF body \in {"no_json", "not_object"}
         THEN /\ Respond(ServerError, scraped, analytics, snapshot)
              /\ UNCHANGED username
         ELSE /\ username' = CASE body = "no_username" -> "None"
                               [] body = "empty_username" -> ""
                               [] OTHER -> "someone"
              /\ web_pc' = "validate"
              /\ UNCHANGED history
    /\ UNCHANGED << requests, body, scraped, analytics, snapshot >>
    /\ UNCHANGED webOthers

\* `not username`
Falsy(u) == u \in {"None", ""}

\* if not username: return jsonify({'error': 'Username is required'}), 400
ValidateUsername ==
    /\ web_pc = "validate"
    /\ IF Falsy(username)
         THEN Respond(BadRequest, scraped, analytics, snapshot)
         ELSE web_pc' = "scrape" /\ UNCHANGED history
    /\ UNCHANGED << requests, body, username, scraped, analytics, snapshot >>
    /\ UNCHANGED webOthers

\* What InstagramAnalyticsScraper().scrape_profile(username, max_posts=30)
\* can come to: a non-empty result, an empty one, an exception.
ScrapeOutcomes == {"result", "empty", "raised"}

\* The scraper is built and called; `if not analytics: return ..., 404`
ScrapeProfile(out) ==
    /\ web_pc = "scrape"
    /\ scraped' = TRUE
    /\ analytics' = IF out = "raised" THEN "none" ELSE out
    /\ CASE out = "raised" -> Respond(ServerError, TRUE, "none", snapshot)
         [] out = "empty" -> Respond(NotFound, TRUE, "empty", snapshot)
         [] OTHER -> web_pc' = "makedirs" /\ UNCHANGED history
    /\ UNCHANGED << requests, body, username, snapshot >>
    /\ UNCHANGED webOthers

ScrapeNext == \E out \in ScrapeOutcomes : ScrapeProfile(out)

\* os.makedirs('data', exist_ok=True)
MakeDataDir ==
    /\ web_pc = "makedirs"
    /\ \E ok \in BOOLEAN :
          IF ok THEN web_pc' = "open" /\ UNCHANGED history
                ELSE Respond(ServerError, scraped, analytics, snapshot)
    /\ UNCHANGED << requests, body, username, scraped, analytics, snapshot >>
    /\ UNCHANGED webOthers

\* with open(filename, 'w', encoding='utf-8') as f: the file is created
OpenSnapshot ==
    /\ web_pc = "open"
    /\ \E ok \in BOOLEAN :
          IF ok THEN /\ snapshot' = "opened"
                     /\ web_pc' = "dump"
                     /\ UNCHANGED history
                ELSE /\ Respond(ServerError, scraped, analytics, snapshot)
                     /\ UNCHANGED snapshot
    /\ UNCHANGED << requests, body, username, scraped, analytics >>
    /\ UNCHANGED webOthers

\* json.dump(analytics, f, indent=2, ensure_ascii=False, default=str)
DumpSnapshot ==
    /\ web_pc = "dump"
    /\ \E ok \in BOOLEAN :
          IF ok THEN /\ snapshot' = "written"
                     /\ web_pc' = "jsonify"
                     /\ UNCHANGED history
                ELSE /\ snapshot' = "partial"
                     /\ Respond(ServerError, scraped, analytics, "partial")
    /\ UNCHANGED << requests, body, username, scraped, analytics >>
    /\ UNCHANGED webOthers

\* return jsonify(analytics), which has no default=str to fall back on
ReturnAnalytics ==
    /\ web_pc = "jsonify"
    /\ \E ok \in BOOLEAN :
          Respond(IF ok THEN Ok ELSE ServerError, scraped, analytics, snapshot)
    /\ UNCHANGED << requests, body, username, scraped, analytics, snapshot >>
    /\ UNCHANGED webOthers

InitWeb ==
    /\ PipelineIdle
    /\ ~GEMINI_API_KEY
    /\ InferIdle
    /\ RunnerIdle
    /\ WebIdle
    /\ MetricsIdle
    /\ DashIdle

WebNext ==
    \/ ReceiveRequest
    \/ ReadUsername
    \/ ValidateUsername
    \/ ScrapeNext
    \/ MakeDataDir
    \/ OpenSnapshot
    \/ DumpSnapshot
    \/ ReturnAnalytics

SpecWeb == InitWeb /\ [][WebNext]_vars

\* One response for each request, none for the one in hand.
OneResponseEach ==
    Len(history) = IF web_pc = "idle" THEN requests ELSE requests - 1

\* The bodies that carry no username.
WithoutUsername == Bodies \ {"with_username"}

\* The response of an answered request follows the cases of the claim: 400
\* for every body without a username, and only for those, with the scraper
\* not invoked; 404 exactly on an empty result; 200 only with a result and
\* its snapshot written.
ResponseByCase(h) ==
    /\ h.code \in {BadRequest, NotFound, Ok, ServerError}
    /\ h.body \in WithoutUsername => h.code = BadRequest /\ ~h.scraped
    /\ h.code = BadRequest => h.body \in WithoutUsername
    /\ h.code = NotFound <=> h.analytics = "empty"
    /\ h.code = Ok => h.analytics = "result" /\ h.snapshot = "written"

\* C17 as stated: one response for each request, 400 when the body has no
\* username and before the scraper is invoked, 404 on an empty result, 200
\* on success, 500 on an exception, and the snapshot written only on the 200
\* path.
C17_SnapshotOnlyOn200 ==
    /\ OneResponseEach
    /\ \A k \in 1..Len(history) :
          /\ ResponseByCase(history[k])
          /\ history[k].snapshot # "none" => history[k].code = Ok

(***************************************************************************)
(* analyze_profile: the metrics block with its values.  A date is counted  *)
(* in ticks of half a day.  A percentage, a rate or a mean is the float    *)
(* (IEEE-754 double) the code computes, operation by operation, each       *)
(* result rounded to the nearest double, ties to the even mantissa.  A     *)
(* float is a record [m, e] of value m * 2^e: 0.0 has no limb, any other   *)
(* float has a mantissa m of exactly Precision bits.  m is a natural       *)
(* number written in limbs of LimbBits bits, the lowest first.  inf and    *)
(* NaN, which a division by 0.0 gives in a column, have no limb and an     *)
(* exponent that is not 0.  The metrics are never negative and far from    *)
(* the ends of the exponent range, so the exponent is left unbounded.      *)
(***************************************************************************)
LimbBits == 14

\* significant bits of a float
Precision == 53

Base == Pow2(LimbBits)

\* a natural number in limbs, the lowest first
Big == Seq(Nat)

\* a value m * 2^e
Dyadic == [m : Big, e : Int]

Inf == [m |-> << >>, e |-> 1]

NaN == [m |-> << >>, e |-> -1]

Zeros(n) == [k \in 1..n |-> 0]

LimbAt(a, k) == IF k <= Len(a) THEN a[k] ELSE 0

Rest(a) == IF a = << >> THEN << >> ELSE Tail(a)

\* a natural number without its high limbs of 0
Trim[a \in Big] ==
    IF a = << >> \/ a[Len(a)] # 0 THEN a
    ELSE Trim[SubSeq(a, 1, Len(a) - 1)]

BigOf[n \in Nat] ==
    IF n = 0 THEN << >> ELSE << n % Base >> \o BigOf[n \div Base]

BigAddC[a \in Big, b \in Big, carry \in Nat] ==
    IF a = << >> /\ b = << >> THEN BigOf[carry]
    ELSE LET sum == LimbAt(a, 1) + LimbAt(b, 1) + carry
         IN << sum % Base >> \o BigAddC[Rest(a), Rest(b), sum \div Base]

BigAdd[a \in Big, b \in Big] == BigAddC[a, b, 0]

BigSubB[a \in Big, b \in Big, borrow \in Nat] ==
    IF a = << >> THEN << >>
    ELSE LET diff == a[1] - LimbAt(b, 1) - borrow
         IN << (diff + Base) % Base >>
               \o BigSubB[Tail(a), Rest(b), IF diff < 0 THEN 1 ELSE 0]

\* a - b, for a >= b
BigSub[a \in Big, b \in Big] == Trim[BigSubB[a, b, 0]]

CmpFrom[a \in Big, b \in Big, k \in Nat] ==
    IF k = 0 THEN 0
    ELSE IF a[k] > b[k] THEN 1
    ELSE IF a[k] < b[k] THEN -1
    ELSE CmpFrom[a, b, k - 1]

\* 1, 0 or -1 as a is above, equal to or below b
BigCmp[a \in Big, b \in Big] ==
    IF Len(a) > Len(b) THEN 1
    ELSE IF Len(a) < Len(b) THEN -1
    ELSE CmpFrom[a, b, Len(a)]

MulC[a \in Big, k \in Nat, carry \in Nat] ==
    IF a = << >> THEN BigOf[carry]
    ELSE LET prod == a[1] * k + carry
         IN << prod % Base >> \o MulC[Tail(a), k, prod \div Base]

\* a * k, for k below Base
BigMulSmall[a \in Big, k \in Nat] == Trim[MulC[a, k, 0]]

BigMulAll[a \in Big, b \in Big] ==
    IF b = << >> THEN << >>
    ELSE BigAdd[MulC[a, b[1], 0], << 0 >> \o BigMulAll[a, Tail(b)]]

BigMul[a \in Big, b \in Big] == Trim[BigMulAll[a, b]]

\* a * 2^s
BigShl[a \in Big, s \in Nat] ==
    IF a = << >> THEN << >>
    ELSE Zeros(s \div LimbBits) \o BigMulSmall[a, Pow2(s % LimbBits)]

\* a \div 2^s
BigShr[a \in Big, s \in Nat] ==
    LET limbs == s \div LimbBits
        low == Pow2(s % LimbBits)
    IN Trim[[k \in 1..(Len(a) - limbs) |->
                (a[k + limbs] \div low)
                    + (LimbAt(a, k + limbs + 1) % low) * (Base \div low)]]

\* a % 2^s
BigLow[a \in Big, s \in Nat] ==
    LET limbs == s \div LimbBits
    IN Trim[[k \in 1..(limbs + 1) |->
                IF k <= limbs THEN LimbAt(a, k)
                ELSE LimbAt(a, k) % Pow2(s % LimbBits)]]

Bits[n \in Nat] == IF n = 0 THEN 0 ELSE 1 + Bits[n \div 2]

\* the number of bits of a
BigBits[a \in Big] ==
    IF a = << >> THEN 0 ELSE (Len(a) - 1) * LimbBits + Bits[a[Len(a)]]

\* the number of low limbs of 0 of a, which is not 0
LowZeros[a \in Big] == IF a[1] # 0 THEN 0 ELSE 1 + LowZeros[Tail(a)]

\* The quotient of the two highest limbs of r by the highest limb of d: it
\* is not below the quotient of r by d, for r below d * Base.
Estimate[r \in Big, d \in Big] ==
    LET high == LimbAt(r, Len(d) + 1) * Base + LimbAt(r, Len(d))
        quot == high \div d[Len(d)]
    IN IF quot < Base THEN quot ELSE Base - 1

\* the largest digit whose product with d is not above r
QuotDigit[digit \in Nat, r \in Big, d \in Big] ==
    IF BigCmp[BigMulSmall[d, digit], r] = 1 THEN QuotDigit[digit - 1, r, d]
    ELSE digit

\* One step of the long division: the limbs q of the quotient found so far,
\* and what is left, r, of which the quotient by d is the next limb.
DivDigit[digit \in Nat, r \in Big, q \in Big, d \in Big] ==
    [q |-> << digit >> \o q, r |-> BigSub[r, BigMulSmall[d, digit]]]

DivStep[r \in Big, q \in Big, d \in Big] ==
    DivDigit[QuotDigit[Estimate[r, d], r, d], r, q, d]

DivNext[limb \in Nat, high \in [q : Big, r : Big], d \in Big] ==
    DivStep[Trim[<< limb >> \o high.r], high.q, d]

\* Long division, a limb of the quotient at a time from the highest down.
LongDiv[n \in Big, d \in Big] ==
    IF n = << >> THEN [q |-> << >>, r |-> << >>]
    ELSE DivNext[n[1], LongDiv[Tail(n), d], d]

\* n = q * d + r with r below d.  Both n and d are first scaled by a factor
\* that brings the highest limb of d to Base / 2 or more, which keeps the
\* estimate of a digit within 2 of the digit: r comes back scaled.
BigDivMod[n \in Big, d \in Big] ==
    LET factor == Base \div (d[Len(d)] + 1)
        res == LongDiv[BigMulSmall[n, factor], BigMulSmall[d, factor]]
    IN [q |-> Trim[res.q], r |-> res.r]

\* The mantissa q, cut below its lowest bit, goes up by 1 if what was cut is
\* above half a bit (half = 1), or is half a bit (half = 0) and q is odd.
RoundUp[q \in Big, half \in -1..1, e \in Int] ==
    LET m == IF half = 1 \/ (half = 0 /\ q[1] % 2 = 1)
               THEN BigAdd[q, << 1 >>] ELSE q
    IN IF BigBits[m] > Precision
         THEN [m |-> BigShr[m, 1], e |-> e + 1]
         ELSE [m |-> m, e |-> e]

\* The float nearest to the value x, a tie going to the even mantissa.
Round[x \in Dyadic] ==
    LET drop == BigBits[x.m] - Precision
    IN IF x.m = << >> THEN Zero
       ELSE IF drop <= 0
         THEN [m |-> BigShl[x.m, -drop], e |-> x.e + drop]
         ELSE RoundUp[BigShr[x.m, drop],
                      BigCmp[BigLow[x.m, drop], BigShl[<< 1 >>, drop - 1]],
                      x.e + drop]

\* float(n), for an integer n >= 0
Float[n \in Nat] == Round[[m |-> BigOf[n], e |-> 0]]

\* the value x, its mantissa without its low limbs of 0
Short[x \in Dyadic] ==
    IF x.m = << >> THEN x
    ELSE LET low == LowZeros[x.m]
         IN [m |-> SubSeq(x.m, low + 1, Len(x.m)), e |-> x.e + low * LimbBits]

\* the exact product of two values
ExactMul[x \in Dyadic, y \in Dyadic] ==
    [m |-> BigMul[x.m, y.m], e |-> x.e + y.e]

\* the exact sum of two values
ExactAdd[x \in Dyadic, y \in Dyadic] ==
    LET e == IF x.e < y.e THEN x.e ELSE y.e
    IN [m |-> BigAdd[BigShl[x.m, x.e - e], BigShl[y.m, y.e - e]], e |-> e]

\* 1, 0 or -1 as the value x is above, equal to or below the value y
ExactCmp[x \in Dyadic, y \in Dyadic] ==
    LET e == IF x.e < y.e THEN x.e ELSE y.e
    IN BigCmp[BigShl[x.m, x.e - e], BigShl[y.m, y.e - e]]

\* The quotient q of two mantissas has more bits than a float keeps; a bit
\* is put below it that tells whether the division left a remainder.
Quotient[cut \in [q : Big, r : Big], e \in Int] ==
    Round[[m |-> BigAdd[BigAdd[cut.q, cut.q],
                        IF cut.r = << >> THEN << >> ELSE << 1 >>],
           e |-> e - 1]]

\* x / y in a column or between floats of numpy.  The mantissa of x, 4
\* limbs further, is divided by that of y, and the low limbs of 0 of y are
\* taken off both.  A division by 0.0 gives inf, or NaN for 0.0 / 0.0.
FloatDiv[x \in Dyadic, y \in Dyadic] ==
    IF x = NaN \/ y = NaN \/ (x = Inf /\ y = Inf) \/ (x = Zero /\ y = Zero)
      THEN NaN
    ELSE IF x = Inf \/ y = Zero THEN Inf
    ELSE IF x = Zero \/ y = Inf THEN Zero
    ELSE LET low == LowZeros[y.m]
         IN Quotient[BigDivMod[Zeros(4 - low) \o x.m,
                               SubSeq(y.m, low + 1, Len(y.m))],
                     x.e - y.e - 4 * LimbBits]

\* x * y
FloatMul[x \in Dyadic, y \in Dyadic] ==
    IF x = NaN \/ y = NaN \/ (x = Inf /\ y = Zero) \/ (x = Zero /\ y = Inf)
      THEN NaN
    ELSE IF x = Inf \/ y = Inf THEN Inf
    ELSE Round[ExactMul[Short[x], Short[y]]]

\* x + y
FloatAdd[x \in Dyadic, y \in Dyadic] ==
    IF x = NaN \/ y = NaN THEN NaN
    ELSE IF x = Inf \/ y = Inf THEN Inf
    ELSE Round[ExactAdd[x, y]]

\* x > y
FloatGt[x \in Dyadic, y \in Dyadic] ==
    IF x = NaN \/ y = NaN \/ y = Inf THEN FALSE
    ELSE IF x = Inf THEN TRUE
    ELSE ExactCmp[x, y] = 1

\* The sum of a column is numpy's add.reduce over a contiguous block of
\* doubles, which does not add the values one after the other from 8
\* values on.
\*
\* `res += a[i]` for the places after `from` up to k, one after the other:
\* the whole of a block of fewer than 8 values, and what a longer block
\* leaves after its groups of 8.
AddEach[a \in Seq(Dyadic), res \in Dyadic, from \in Nat, k \in Nat] ==
    IF k <= from THEN res ELSE FloatAdd[AddEach[a, res, from, k - 1], a[k]]

\* The j-th of the 8 partial sums of a block, after the group of 8 that
\* follows place `at`: r[j] = a[j], then r[j] += a[at + j] for
\* at = 8, 16, ...
Lane[a \in Seq(Dyadic), j \in 1..8, at \in Nat] ==
    IF at = 0 THEN a[j] ELSE FloatAdd[Lane[a, j, at - 8], a[at + j]]

\* The sum of a block.  Fewer than 8 values are added one after the other
\* from 0.0.  Up to 128 values are added into 8 partial sums, place at + j
\* into r[j], the partial sums are added as
\* ((r[0] + r[1]) + (r[2] + r[3])) + ((r[4] + r[5]) + (r[6] + r[7])), and
\* the values after the last whole group of 8 are added to that one after
\* the other.  A longer block is cut in two at n / 2 less (n / 2) % 8, and
\* the sums of the two parts are added.
pairwise_sum[a \in Seq(Dyadic)] ==
    LET n == Len(a)
        whole == n - (n % 8)
        r == [j \in 1..8 |-> Lane[a, j, whole - 8]]
        half == (n \div 2) - ((n \div 2) % 8)
    IN IF n < 8 THEN AddEach[a, Zero, 0, n]
       ELSE IF n <= 128
         THEN AddEach[a,
                      FloatAdd[FloatAdd[FloatAdd[r[1], r[2]],
                                        FloatAdd[r[3], r[4]]],
                               FloatAdd[FloatAdd[r[5], r[6]],
                                        FloatAdd[r[7], r[8]]]],
                      whole, n]
       ELSE FloatAdd[pairwise_sum[SubSeq(a, 1, half)],
                     pairwise_sum[SubSeq(a, half + 1, n)]]

\* column.mean(): the values that are NaN are put to 0.0, the column is
\* summed, and the sum is divided by the number of values that are not NaN;
\* NaN when there is none.
Mean[column \in Seq(Dyadic)] ==
    LET filled == [k \in 1..Len(column) |->
                      IF column[k] = NaN THEN Zero ELSE column[k]]
        count == Cardinality({ k \in 1..Len(column) : column[k] # NaN })
    IN FloatDiv[pairwise_sum[filled], Float[count]]

MaxMetricPosts == 3

MaxFollowersCount == 3

\* posts of the stream that failed and left no row
MaxFailedPosts == 1

TicksPerDay == 2

DaysPerWeek == 7

Percent == 100

ViralFactor == 3

\* The posts a table is made of: posts_data records, without the fields
\* the metrics here do not read.
PostKinds ==
    { [date |-> 0, likes |-> 3, comments |-> 1, is_video |-> FALSE,
       content_type |-> "Photo"],
      [date |-> 1, likes |-> 13, comments |-> 0, is_video |-> TRUE,
       content_type |-> "Video/Reel"],
      [date |-> 2, likes |-> 0, comments |-> 0, is_video |-> FALSE,
       content_type |-> "Carousel"],
      [date |-> 5, likes |-> 0, comments |-> 1, is_video |-> TRUE,
       content_type |-> "Video/Reel"],
      [date |-> 0, likes |-> 0, comments |-> 0, is_video |-> TRUE,
       content_type |-> "Unknown"] }

\* The places of n collected posts in the fetched stream: "post_index" is
\* i + 1, in the order of the stream, and the place of a failed post is
\* left out.
IndexLists(n) ==
    { idx \in [1..n -> 1..(n + MaxFailedPosts)] :
        \A k \in 1..(n - 1) : idx[k] < idx[k + 1] }

\* One row of the table: a post and its place in the stream.
PostRow(kind, place) ==
    [post_index |-> place, date |-> kind.date, likes |-> kind.likes,
     comments |-> kind.comments, is_video |-> kind.is_video,
     content_type |-> kind.content_type]

PostTables ==
    UNION { { [k \in 1..n |-> PostRow(kinds[k], idx[k])] :
                kinds \in [1..n -> PostKinds], idx \in IndexLists(n) } :
            n \in 0..MaxMetricPosts }

\* The post of a content type with so many likes.
KindOf(type, likes) ==
    CHOOSE kind \in PostKinds :
        kind.content_type = type /\ kind.likes = likes

\* Two tables of more posts than MaxMetricPosts, of 8 rows and of 9, none
\* of them failed: from 8 rows on a column is summed in partial sums.
LongTables ==
    LET kinds == << KindOf("Photo", 3), KindOf("Photo", 3),
                    KindOf("Photo", 3), KindOf("Video/Reel", 13),
                    KindOf("Video/Reel", 13), KindOf("Carousel", 0),
                    KindOf("Carousel", 0), KindOf("Video/Reel", 0),
                    KindOf("Unknown", 0) >>
    IN { [k \in 1..n |-> PostRow(kinds[k], k)] :
           n \in {Len(kinds) - 1, Len(kinds)} }

\* df["likes"] + df["comments"], summed over a table
RECURSIVE Engagement(_)
Engagement(t) ==
    IF Len(t) = 0 THEN 0
    ELSE t[1].likes + t[1].comments + Engagement(Tail(t))

IsVideo(p) == p.is_video

\* video_df = df[df["is_video"] == True]
video_df == SelectSeq(df, IsVideo)

\* `if followers_count > 0:`
FollowersPositive_orZero == followers >= 0

FollowersPositive == followers > 0

\* t["engagement"] / followers_count * 100.0, the column
\* "engagement_rate_post" of a table
engagement_rate_post(t) ==
    [k \in 1..Len(t) |->
        FloatMul[FloatDiv[Float[t[k].likes + t[k].comments], Float[followers]],
                 Float[Percent]]]

\* viral_videos = video_df[video_df["engagement_rate_post"] > 3 * avg_video_eng]
ViralVideos ==
    LET rates == engagement_rate_post(video_df)
        avg_video_eng == Mean[rates]
        bar == FloatMul[Float[ViralFactor], avg_video_eng]
    IN { k \in 1..Len(video_df) : FloatGt[rates[k], bar] }

\* `if not df.empty:` is false: every metric keeps its 0.0
NoPosts ==
    /\ m_pc = "metrics"
    /\ df = << >>
    /\ m_pc' = "done"
    /\ UNCHANGED << followers, df, engagement_rate, viral_percentage,
                    posts_per_week, content_distribution, divisors,
                    df_columns, er_timeline >>
    /\ UNCHANGED metricOthers

\* Engagement rate and viral percentage.
ComputeEngagement ==
    /\ m_pc = "metrics"
    /\ df # << >>
    /\ IF FollowersPositive
         THEN /\ engagement_rate' = Mean[engagement_rate_post(df)]
              /\ IF video_df # << >>
                   THEN /\ viral_percentage' =
                              FloatMul[FloatDiv[Float[Cardinality(ViralVideos)],
                                                Float[Len(video_df)]],
                                       Float[Percent]]
                        /\ divisors' = divisors \o << followers, followers >>
                   ELSE /\ viral_percentage' = Zero
                        /\ divisors' = Append(divisors, followers)
              /\ df_columns' = {"engagement", "engagement_rate_post"}
         ELSE /\ engagement_rate' = Zero
              /\ viral_percentage' = Zero
              /\ UNCHANGED << divisors, df_columns >>
    /\ m_pc' = "cadence"
    /\ UNCHANGED << followers, df, posts_per_week, content_distribution,
                    er_timeline >>
    /\ UNCHANGED metricOthers

Dates == { df[k].date : k \in 1..Len(df) }

MaxDate == CHOOSE d \in Dates : \A e \in Dates : e <= d

MinDate == CHOOSE d \in Dates : \A e \in Dates : d <= e

\* (df["date"].max() - df["date"].min()).days
date_range_days == (MaxDate - MinDate) \div TicksPerDay

\* `if date_range_days > 0:`
SpanPositive_orZero(days) == days >= 0

SpanPositive(days) == days > 0

\* Posts per week: len(df) / (date_range_days / 7.0)
ComputeCadence ==
    /\ m_pc = "cadence"
    /\ posts_per_week' =
          IF Len(df) > 1 /\ SpanPositive(date_range_days)
            THEN FloatDiv[Float[Len(df)],
                          FloatDiv[Float[date_range_days], Float[DaysPerWeek]]]
            ELSE Zero
    /\ m_pc' = "distribution"
    /\ UNCHANGED << followers, df, engagement_rate, viral_percentage,
                    content_distribution, divisors, df_columns, er_timeline >>
    /\ UNCHANGED metricOthers

ContentTypes == { df[k].content_type : k \in 1..Len(df) }

CountOf(type) == Cardinality({ k \in 1..Len(df) : df[k].content_type = type })

\* value_counts(normalize=True) * 100.0, for one type: count / n * 100.0
Share_ofStream(count, n) ==
    FloatMul[FloatDiv[Float[count], Float[n + 1]], Float[Percent]]

Share(count, n) == FloatMul[FloatDiv[Float[count], Float[n]], Float[Percent]]

\* df["content_type"].value_counts(normalize=True) * 100.0, as a dict
ComputeDistribution ==
    /\ m_pc = "distribution"
    /\ content_distribution' =
          [type \in ContentTypes |-> Share(CountOf(type), Len(df))]
    /\ m_pc' = "timeline"
    /\ UNCHANGED << followers, df, engagement_rate, viral_percentage,
                    posts_per_week, divisors, df_columns, er_timeline >>
    /\ UNCHANGED metricOthers

\* The orders in which the given rows can follow one another with dates
\* that do not decrease: a row of the earliest date, then the others.
RECURSIVE DateOrders(_)
DateOrders(rows) ==
    IF rows = {} THEN { << >> }
    ELSE UNION { { << first >> \o rest : rest \in DateOrders(rows \ {first}) } :
                 first \in { row \in rows :
                               \A other \in rows :
                                   df[row].date <= df[other].date } }

\* The orders df.sort_values("date") can put the rows in: the dates do not
\* decrease, and the sort fixes nothing between rows of one date.
SortedByDate == DateOrders(1..Len(df))

\* row["date"].strftime("%Y-%m-%d"): the day of a date
DayOf(date) == date \div TicksPerDay

\* One point of the timeline: the day and int(row["post_index"]) of the row.
\* The rounded rate of the point is left out.
TimelinePoint(row) ==
    [date |-> DayOf(df[row].date), post_index |-> df[row].post_index]

\* if "engagement_rate_post" in df.columns: the rows in date order, a point
\* for each
ComputeTimeline_unsorted ==
    /\ m_pc = "timeline"
    /\ er_timeline' =
          IF "engagement_rate_post" \in df_columns
            THEN [k \in 1..Len(df) |-> TimelinePoint(k)]
            ELSE << >>
    /\ m_pc' = "done"
    /\ UNCHANGED << followers, df, engagement_rate, viral_percentage,
                    posts_per_week, content_distribution, divisors,
                    df_columns >>
    /\ UNCHANGED metricOthers

ComputeTimeline ==
    /\ m_pc = "timeline"
    /\ IF "engagement_rate_post" \in df_columns
         THEN \E perm \in SortedByDate :
                 er_timeline' = [k \in 1..Len(df) |-> TimelinePoint(perm[k])]
         ELSE er_timeline' = << >>
    /\ m_pc' = "done"
    /\ UNCHANGED << followers, df, engagement_rate, viral_percentage,
                    posts_per_week, content_distribution, divisors,
                    df_columns >>
    /\ UNCHANGED metricOthers

InitMetrics ==
    /\ PipelineIdle
    /\ ~GEMINI_API_KEY
    /\ InferIdle
    /\ RunnerIdle
    /\ WebIdle
    /\ DashIdle
    /\ followers \in 0..MaxFollowersCount
    /\ df \in PostTables \cup LongTables
    /\ m_pc = "metrics"
    /\ engagement_rate = Zero
    /\ viral_percentage = Zero
    /\ posts_per_week = Zero
    /\ content_distribution = << >>
    /\ divisors = << >>
    /\ df_columns = {}
    /\ er_timeline = << >>

MetricsNext ==
    \/ NoPosts
    \/ ComputeEngagement
    \/ ComputeCadence
    \/ ComputeDistribution
    \/ ComputeTimeline

SpecMetrics == InitMetrics /\ [][MetricsNext]_vars

\* C18: with a follower count of 0 the engagement rate is exactly 0 and
\* nothing is divided by the follower count; the per-post rate is evaluated
\* only with a follower count above 0.
C18_NoDivisionByZeroFollowers ==
    /\ followers = 0 => engagement_rate = Zero /\ divisors = << >>
    /\ \A k \in 1..Len(divisors) : divisors[k] > 0

\* Posts with likes and comments, of a profile with no followers.
C18_Witness ==
    /\ m_pc = "done"
    /\ followers = 0
    /\ Engagement(df) > 0
    /\ engagement_rate = Zero

\* The cadence has been computed.
CadenceDone == m_pc \in {"distribution", "timeline", "done"}

\* C19: posts per week is 0 with fewer than 2 posts or with equal earliest
\* and latest dates; otherwise, when the span in days is positive, it is the
\* post count divided by (span in days / 7).
C19_Cadence ==
    CadenceDone =>
        IF Len(df) < 2 \/ Cardinality(Dates) = 1
          THEN posts_per_week = Zero
          ELSE date_range_days > 0 =>
                  posts_per_week
                      = FloatDiv[Float[Len(df)],
                                 FloatDiv[Float[date_range_days], Float[7]]]

\* Two posts a day apart, and so 14 posts a week.
C19_Witness ==
    /\ CadenceDone
    /\ Len(df) = 2
    /\ date_range_days = 1
    /\ posts_per_week = Float[14]

\* the exact distance of two values
ExactDist[x \in Dyadic, y \in Dyadic] ==
    LET e == IF x.e < y.e THEN x.e ELSE y.e
        a == BigShl[x.m, x.e - e]
        b == BigShl[y.m, y.e - e]
    IN [m |-> IF BigCmp[a, b] = 1 THEN BigSub[a, b] ELSE BigSub[b, a],
        e |-> e]

\* the integer n, exactly
Exact[n \in Nat] == [m |-> BigOf[n], e |-> 0]

\* 2^-40, about 9.1e-13
Tolerance == [m |-> << 1 >>, e |-> -40]

\* The exact sum of the shares: it does not depend on the order.
RECURSIVE ExactSum(_, _)
ExactSum(f, keys) ==
    IF keys = {} THEN Exact[0]
    ELSE LET k == CHOOSE x \in keys : TRUE
         IN ExactAdd[f[k], ExactSum(f, keys \ {k})]

SumOfShares == ExactSum(content_distribution, DOMAIN content_distribution)

\* The shares are one for each content type in the table, each the count of
\* that type over the number of posts, as a percentage: n times the share
\* is within n times the tolerance of 100 times the count.
OneSharePerType ==
    /\ DOMAIN content_distribution = ContentTypes
    /\ \A type \in ContentTypes :
          ExactCmp[ExactDist[ExactMul[content_distribution[type],
                                      Exact[Len(df)]],
                             Exact[100 * CountOf(type)]],
                   ExactMul[Exact[Len(df)], Tolerance]] <= 0

\* C20 as stated: after every analysis that got past the profile load the
\* content-type shares are one per type present, over the captured posts,
\* and sum to 100.
C20_SharesSumTo100 ==
    m_pc = "done" =>
        /\ OneSharePerType
        /\ ExactCmp[SumOfShares, Exact[100]] = 0

\* C20: when at least one post was captured the content-type shares are one
\* per type present, over the captured posts, and their sum is within
\* 2^-40 of 100; with no post captured there is no share at all.
C20_SharesSumNear100WithPosts ==
    m_pc = "done" =>
        /\ OneSharePerType
        /\ df # << >> =>
              ExactCmp[ExactDist[SumOfShares, Exact[100]], Tolerance] <= 0
        /\ df = << >> => DOMAIN content_distribution = {}

\* Three posts of three types: each share is 33.33333333333333 and the sum
\* is below 100.
C20_Witness ==
    /\ m_pc = "done"
    /\ Len(df) = 3
    /\ Cardinality(DOMAIN content_distribution) = 3
    /\ ExactCmp[SumOfShares, Exact[100]] = -1

\* The timeline has a point for each row of the table, each row once, and
\* its dates do not decrease.
RowOf(point) ==
    CHOOSE row \in 1..Len(df) : df[row].post_index = point.post_index

OnePointPerPost ==
    /\ Len(er_timeline) = Len(df)
    /\ \A row \in 1..Len(df) :
          \E k \in 1..Len(er_timeline) :
              er_timeline[k].post_index = df[row].post_index
    /\ \A k \in 1..Len(er_timeline) :
          /\ \E row \in 1..Len(df) :
                df[row].post_index = er_timeline[k].post_index
          /\ er_timeline[k].date = df[RowOf(er_timeline[k])].date \div TicksPerDay
    /\ \A k \in 1..(Len(er_timeline) - 1) :
          /\ er_timeline[k].date <= er_timeline[k + 1].date
          /\ df[RowOf(er_timeline[k])].date
                <= df[RowOf(er_timeline[k + 1])].date

\* C21 as stated: after every analysis that got past the profile load the
\* engagement-rate timeline has one point for each collected post, in
\* non-decreasing order of post date.
C21_TimelinePerPost ==
    m_pc = "done" => OnePointPerPost

\* C21: when the follower count is above 0 the engagement-rate timeline has
\* one point for each collected post, in non-decreasing order of post date;
\* with a follower count of 0 the timeline is empty.
C21_TimelinePerPostWithFollowers ==
    m_pc = "done" =>
        IF followers > 0 THEN OnePointPerPost ELSE er_timeline = << >>

\* A table that is not in date order, of a profile with followers, with a
\* failed post between the two collected ones.
C21_Witness ==
    /\ m_pc = "done"
    /\ followers > 0
    /\ Len(df) = 2
    /\ df[1].date > df[2].date
    /\ df[1].post_index = 1
    /\ df[2].post_index = 3
    /\ er_timeline = << [date |-> DayOf(df[2].date), post_index |-> 3],
                        [date |-> DayOf(df[1].date), post_index |-> 1] >>

\* The columns the comparison table is claimed to have.
ClaimedComparisonColumns ==
    { "username", "full_name", "followers", "following", "total_posts",
      "avg_likes", "avg_comments", "avg_views", "engagement_rate",
      "viral_percentage", "posts_per_week", "category", "location" }

ColumnSet(columns) == { columns[k] : k \in 1..Len(columns) }

\* C22: each comparison file the runner writes holds the fixed column subset
\* (username, full name, followers, following, total posts, the three
\* averages, engagement rate, viral percentage, posts per week, category,
\* location) and no other stats field.
C22_ComparisonColumns ==
    \A f \in comparison : ColumnSet(f.columns) = ClaimedComparisonColumns

\* C23: the sequence indices of the collected records are 1-based positions
\* in the fetched stream and strictly increasing in collection order,
\* whatever posts were skipped or failed.
C23_IndicesIncrease ==
    /\ [](\A k \in 1..Len(posts_data) :
             /\ posts_data[k].post_index >= 1
             /\ posts_data[k].post_index <= i
             /\ k > 1 => posts_data[k - 1].post_index < posts_data[k].post_index)
    /\ [][Len(posts_data') > Len(posts_data) =>
             /\ Len(posts_data') = Len(posts_data) + 1
             /\ posts_data'[Len(posts_data')].post_index = i + 1
             /\ i' = i + 1]_vars

\* A failed post between two collected ones leaves a gap.
C23_Witness ==
    /\ Len(posts_data) = 2
    /\ posts_data[1].post_index = 1
    /\ posts_data[2].post_index = 3

\* C24: a short pause follows each post, a pause of 3 times the short one is
\* taken at every 20th post, and with the short pause set to zero no pause of
\* either kind is taken after any post.
C24_PauseAfterEachPost ==
    pc = "posts" /\ i > 0 =>
        /\ SLEEP_DELAY > 0 =>
              /\ slept >= SLEEP_DELAY
              /\ i % 20 = 0 => slept >= 3 * SLEEP_DELAY
        /\ SLEEP_DELAY = 0 => slept \in {0, ConnectionCooldown}

\* C25: total_requests is the number of collected records, total_requests
\* plus failed_posts is the number of posts whose extraction was started,
\* and no post is counted both as collected and as failed.
C25_PostsCountedOnce ==
    /\ [](/\ total_requests = Len(posts_data)
          /\ total_requests + failed_posts = i)
    /\ [][~(total_requests' > total_requests /\ failed_posts' > failed_posts)]_vars

\* Collected and failed posts, in turn.
C25_Witness ==
    /\ pc = "metrics"
    /\ total_requests = 2
    /\ failed_posts = 2
    /\ i = 4

\* The profile was loaded.
PastLoad == pc \notin {"load_profile", "load_failed"} /\ result # "empty"

\* C27: with the export flag off, an analysis that got past the profile load
\* writes no export file, the output directory exists when it has ended, and
\* the aggregates it returns carry every export path.
C27_NoExportNoFiles ==
    ~export /\ PastLoad =>
        /\ attempted = {}
        /\ written = {}
        /\ pc = "done" =>
              /\ output_dir
              /\ result = "triple"
              /\ extra_paths = {"output_dir", "posts_csv", "posts_log",
                                "followers_log", "following_log",
                                "interactions_log", "profile_csv",
                                "profile_json", "profile_xlsx"}

\* C26: the number v of viral videos and the number n of videos satisfy
\* 3 x v < n whenever v > 0: the viral percentage is strictly below 100/3,
\* and is 0 whenever at most three videos were collected.
C26_ViralBelowThird ==
    m_pc \notin {"idle", "metrics"} =>
        /\ followers > 0 /\ ViralVideos # {} =>
              3 * Cardinality(ViralVideos) < Len(video_df)
        /\ ExactCmp[ExactMul[Exact[3], viral_percentage], Exact[100]] = -1
        /\ Len(video_df) <= 3 => viral_percentage = Zero

(***************************************************************************)
(* ig_dashboard.py: main(), run by the framework from top to bottom at     *)
(* every interaction with the page, over the state of one session.         *)
(***************************************************************************)
MaxRuns == 3

\* What the username box can hold.
UsernameInputs ==
    { << >>,
      << " " >>,
      << "\t", "U+00A0" >>,
      << "a", "b" >>,
      << " ", "A", "b", "\t" >>,
      << "@", "c" >> }

\* The characters for which str.isspace() holds.
WhiteSpace ==
  {
    "\t", "\n", "U+000B", "\f", "\r", "U+001C", "U+001D", "U+001E",
    "U+001F", " ", "U+0085", "U+00A0", "U+1680", "U+2000", "U+2001",
    "U+2002", "U+2003", "U+2004", "U+2005", "U+2006", "U+2007", "U+2008",
    "U+2009", "U+200A", "U+2028", "U+2029", "U+202F", "U+205F", "U+3000" }

RECURSIVE LStrip(_)
LStrip(str) ==
    IF Len(str) > 0 /\ str[1] \in WhiteSpace THEN LStrip(Tail(str)) ELSE str

RECURSIVE RStrip(_)
RStrip(str) ==
    IF Len(str) > 0 /\ str[Len(str)] \in WhiteSpace
      THEN RStrip(SubSeq(str, 1, Len(str) - 1))
      ELSE str

\* str.strip()
Strip(str) == RStrip(LStrip(str))

\* `not username_input.strip()`
IsBlank(input) == Strip(input) = << >>

\* analyze_profile: if username.startswith("@"): username = username[1:]
DropAt(name) ==
    IF Len(name) > 0 /\ name[1] = "@" THEN Tail(name) ELSE name

\* The stats of a successful analysis of `name`: the handle is the loaded
\* profile's own, taken to be the name asked for in lower case.
StatsOf(name) == [username |-> Lower(DropAt(name))]

\* No run of the script is in progress.
NoRun == [input |-> << >>, clicked |-> FALSE, called |-> FALSE, out |-> "none"]

\* The run in progress ends: by its return after the info or the dashboard
\* ("info", "shown"), by an exception ("raised"), or stopped by the
\* framework at one of the script's calls into it ("stopped").
EndRun(how) ==
    /\ dash_log' = Append(dash_log,
                          [input |-> dash_run.input,
                           clicked |-> dash_run.clicked,
                           called |-> dash_run.called,
                           out |-> dash_run.out,
                           end |-> how])
    /\ dash_pc' = "idle"
    /\ dash_run' = NoRun

\* The framework runs main() for the session, with the values of the box
\* and of the button: render_header(), `if "analysis" not in
\* st.session_state:`
BeginRun == \E input \in UsernameInputs, clicked \in BOOLEAN :
    /\ dash_pc = "idle"
    /\ Len(dash_log) < MaxRuns
    /\ dash_run' = [input |-> input, clicked |-> clicked, called |-> FALSE,
                    out |-> "none"]
    /\ dash_pc' = IF "analysis" \in session_keys THEN "sidebar"
                                                 ELSE "init_analysis"
    /\ UNCHANGED << session_keys, analysis, last_username, dash_log >>
    /\ UNCHANGED dashOthers

\* st.session_state.analysis = None
InitAnalysisKey ==
    /\ dash_pc = "init_analysis"
    /\ session_keys' = session_keys \cup {"analysis"}
    /\ analysis' = << >>
    /\ dash_pc' = "init_username"
    /\ UNCHANGED << last_username, dash_log, dash_run >>
    /\ UNCHANGED dashOthers

\* st.session_state.last_username = ""
InitUsernameKey ==
    /\ dash_pc = "init_username"
    /\ session_keys' = session_keys \cup {"last_username"}
    /\ last_username' = << >>
    /\ dash_pc' = "sidebar"
    /\ UNCHANGED << analysis, dash_log, dash_run >>
    /\ UNCHANGED dashOthers

\* The sidebar, then `if run_button:` is false.
RunWithoutClick ==
    /\ dash_pc = "sidebar"
    /\ ~dash_run.clicked
    /\ dash_pc' = "render"
    /\ UNCHANGED << session_keys, analysis, last_username, dash_log, dash_run >>
    /\ UNCHANGED dashOthers

\* if not username_input.strip(): st.warning(...)
ClickBlank ==
    /\ dash_pc = "sidebar"
    /\ dash_run.clicked
    /\ IsBlank(dash_run.input)
    /\ dash_pc' = "render"
    /\ UNCHANGED << session_keys, analysis, last_username, dash_log, dash_run >>
    /\ UNCHANGED dashOthers

\* else: with st.spinner(...): stats, df, extra =
\* analyze_profile(username_input.strip(), ...); `if not stats:` an error is
\* shown.  An exception of the analyzer ends the run where it is.
ClickAnalyze == \E out \in AnalysisOutcomes :
    /\ dash_pc = "sidebar"
    /\ dash_run.clicked
    /\ ~IsBlank(dash_run.input)
    /\ IF out = "raised"
         THEN /\ dash_log' = Append(dash_log,
                                    [input |-> dash_run.input,
                                     clicked |-> TRUE, called |-> TRUE,
                                     out |-> out, end |-> "raised"])
              /\ dash_pc' = "idle"
              /\ dash_run' = NoRun
         ELSE /\ dash_run' = [dash_run EXCEPT !.called = TRUE, !.out = out]
              /\ dash_pc' = IF out = "stats" THEN "store_analysis"
                                             ELSE "render"
              /\ UNCHANGED dash_log
    /\ UNCHANGED << session_keys, analysis, last_username >>
    /\ UNCHANGED dashOthers

\* st.session_state.analysis = {"stats": stats, "df": df, "extra": extra}
StoreAnalysis ==
    /\ dash_pc = "store_analysis"
    /\ session_keys' = session_keys \cup {"analysis"}
    /\ analysis' = << [stats |-> StatsOf(Strip(dash_run.input))] >>
    /\ dash_pc' = "store_username"
    /\ UNCHANGED << last_username, dash_log, dash_run >>
    /\ UNCHANGED dashOthers

\* st.session_state.last_username = stats.get("username", username_input)
StoreUsername ==
    /\ dash_pc = "store_username"
    /\ session_keys' = session_keys \cup {"last_username"}
    /\ last_username' = StatsOf(Strip(dash_run.input)).username
    /\ dash_pc' = "render"
    /\ UNCHANGED << analysis, dash_log, dash_run >>
    /\ UNCHANGED dashOthers

\* `if st.session_state.analysis is None:` the info and return; else the
\* dashboard of the held analysis under st.session_state.last_username,
\* which raises AttributeError when the session has no such key.
Render ==
    /\ dash_pc = "render"
    /\ EndRun(IF analysis = << >> THEN "info"
              ELSE IF "last_username" \in session_keys THEN "shown"
              ELSE "raised")
    /\ UNCHANGED << session_keys, analysis, last_username >>
    /\ UNCHANGED dashOthers

\* Every statement of main() that draws an element (st.*) or that reads or
\* stores a key of st.session_state (603, 606-626, 630-648, 651-660) is a
\* call into the framework, which ends the run there, before the statement
\* takes effect, when the user has acted on the page or left it since the
\* run began: the stores of 607 and 608, and those of 643 and 648, are two
\* such calls each, and analyze_profile runs for minutes before 643.
StopRun ==
    /\ dash_pc # "idle"
    /\ EndRun("stopped")
    /\ UNCHANGED << session_keys, analysis, last_username >>
    /\ UNCHANGED dashOthers

InitDash ==
    /\ PipelineIdle
    /\ ~GEMINI_API_KEY
    /\ InferIdle
    /\ RunnerIdle
    /\ WebIdle
    /\ MetricsIdle
    /\ DashIdle

DashNext ==
    \/ BeginRun
    \/ InitAnalysisKey
    \/ InitUsernameKey
    \/ RunWithoutClick
    \/ ClickBlank
    \/ ClickAnalyze
    \/ StoreAnalysis
    \/ StoreUsername
    \/ Render
    \/ StopRun

SpecDash == InitDash /\ [][DashNext]_vars

\* The runs in which the analyzer returned non-empty stats.
GoodRuns == { k \in 1..Len(dash_log) : dash_log[k].out = "stats" }

LastGoodRun == CHOOSE k \in GoodRuns : \A j \in GoodRuns : j <= k

\* The handle the analyzer gives for what the box held in run k.
HandleOf(k) == StatsOf(Strip(dash_log[k].input)).username

NewDelhiKey == << "n", "e", "w", " ", "d", "e", "l", "h", "i" >>

\* C29: the heuristic never gives the location "New Delhi, India": a text
\* with the key "new delhi" has the earlier key "delhi" too, and gets
\* "Delhi, India" or the value of a still earlier key.
C29_NeverNewDelhi ==
    HeuristicUsed =>
        /\ location # "New Delhi, India"
        /\ Contains(TextLower(bio, captions), NewDelhiKey) =>
              location \in {"Mumbai, India", "Pune, India", "Bengaluru, India",
                            "Delhi, India"}

\* The heuristic has answered for a text that names New Delhi.
C29_Witness ==
    /\ HeuristicUsed
    /\ Contains(TextLower(bio, captions), NewDelhiKey)
    /\ location = "Delhi, India"

====
